---- MODULE Spec2Model ----
(***************************************************************************)
(* A model of grapholon::SkeletalGraph (Include/SkeletalGraph.hpp): a      *)
(* directed multigraph stored in a boost::adjacency_list<listS, listS,     *)
(* bidirectionalS>, whose edges carry polyline curves, together with the   *)
(* aggregate counter edge_spline_count_.                                   *)
(*                                                                         *)
(* Representation.                                                         *)
(*  - m_vertices is the vertex list of the boost graph, in list order; a   *)
(*    vertex is [id, position, is_part_of_cycle]; id plays the role of the *)
(*    VertexDescriptor (the address of the list node), 0 is null_vertex(). *)
(*  - m_edges is the edge list of the boost graph, in list order; an edge  *)
(*    is [id, source, target, curve, is_part_of_cycle]. listS appends to   *)
(*    the back of the global list and of both incidence lists, so the      *)
(*    in- and out-edge lists of a vertex are the sub-sequences of m_edges. *)
(*  - Positions are integers on one axis; a curve is the sequence of the   *)
(*    positions of its samples. Tangents are not represented, and radii    *)
(*    only on the vertices of the graphs that are exported and imported:   *)
(*    no other operation modelled here reads them.                         *)
(*  - edge_spline_count_ is a 32-bit unsigned counter. It is kept as the   *)
(*    representative of its residue modulo 2^32 in (-2^31, 2^31): a value  *)
(*    -k stands for 2^32 - k. Additions and subtractions of small numbers  *)
(*    are then the plain integer ones.                                     *)
(*  - pre and last are history variables. The calls of a run are made      *)
(*    unobserved until one call is observed: pre then holds the graph as   *)
(*    that call found it and last the call (name, arguments, returned      *)
(*    value, exception). Descriptors are addresses, so between unobserved  *)
(*    calls the graph is kept up to a renaming of them.                    *)
(***************************************************************************)
EXTENDS Integers, Sequences, FiniteSets, TLC

VARIABLES m_vertices, m_edges, edge_spline_count_, pre, last

vars == <<m_vertices, m_edges, edge_spline_count_, pre, last>>

(***************************************************************************)
(* Bounds of the model.                                                    *)
(***************************************************************************)
\* vertices the graph may hold after a call
MaxVertices == 2
\* edges the graph may hold after a call
MaxEdges == 2
\* samples a curve may hold after a call
MaxCurveSize == 3
\* vertex positions handed to add_vertex are 0, 2, .., 2 * MaxPos
MaxPos == 1
\* largest distance between edge_spline_count_ and the sample total that an
\* unobserved call may leave
MaxDrift == 0

null_vertex == 0

\* EdgeDescriptor(): the default-constructed edge descriptor
null_edge == 0

Positions == {2 * k : k \in 0..MaxPos}

\* the vertices handed to add_vertex: unmarked ones at every position but
\* the last, marked ones (is_part_of_cycle) at the last
VertexInputs ==
    {[position |-> p, is_part_of_cycle |-> (p = 2 * MaxPos)] : p \in Positions}

\* the positions at which split_edge_at and cut_edge_at are asked to cut
SplitPositions == {1}

\* positions handed to cut_edge_at: between the vertices, and past them all
CutPositions == {1, 2 * MaxPos + 1}

\* the curves handed to add_edge(from, to, props): straight from a to b, or
\* with inner samples 1, 2, ..
Curves(a, b) == {<<a>> \o [i \in 1..k |-> i] \o <<b>> : k \in 0..(MaxCurveSize - 2)}

SOURCE == "SOURCE"

TARGET == "TARGET"

MIDPOINT == "MIDPOINT"

COLLAPSE_OPTION == {SOURCE, TARGET, MIDPOINT}

(***************************************************************************)
(* Helpers.                                                                *)
(***************************************************************************)
Range(s) == {s[i] : i \in DOMAIN s}

RECURSIVE SumSeq(_)
SumSeq(s) == IF s = <<>> THEN 0 ELSE Head(s) + SumSeq(Tail(s))

Ids(s) == {x.id : x \in Range(s)}

IdSeq(s) == [i \in DOMAIN s |-> s[i].id]

\* the address the allocator hands out: the smallest one that was not in use
\* at any time since the call started
FreshId(used) ==
    CHOOSE i \in 1..(Cardinality(used) + 1) :
        i \notin used /\ \A j \in 1..(i - 1) : j \in used

\* Vector3f::normalize, on one axis
normalize(d) == IF d > 0 THEN 1 ELSE IF d < 0 THEN -1 ELSE 0

(***************************************************************************)
(* The graph store (boost::adjacency_list) and the accessors.              *)
(***************************************************************************)
get_vertex(g, v) == CHOOSE x \in Range(g.m_vertices) : x.id = v

get_edge(g, e) == CHOOSE x \in Range(g.m_edges) : x.id = e

boost_source(g, e) == get_edge(g, e).source

boost_target(g, e) == get_edge(g, e).target

boost_in_edges(g, v) == SelectSeq(g.m_edges, LAMBDA x : x.target = v)

boost_out_edges(g, v) == SelectSeq(g.m_edges, LAMBDA x : x.source = v)

\* boost::edge(u, v, g): the first out-edge of u whose target is v
boost_edge(g, u, v) ==
    LET found == SelectSeq(g.m_edges, LAMBDA x : x.source = u /\ x.target = v)
    IN  IF found = <<>> THEN [first |-> null_edge, second |-> FALSE]
        ELSE [first |-> found[1].id, second |-> TRUE]

boost_remove_vertex(g, v) ==
    [g EXCEPT !.m_vertices = SelectSeq(@, LAMBDA x : x.id # v)]

boost_clear_vertex(g, v) ==
    [g EXCEPT !.m_edges = SelectSeq(@, LAMBDA x : x.source # v /\ x.target # v)]

boost_remove_edge(g, e) ==
    [g EXCEPT !.m_edges = SelectSeq(@, LAMBDA x : x.id # e)]

vertex_count(g) == Len(g.m_vertices)

edge_count(g) == Len(g.m_edges)

\* the out-edges alone
degree_out_only(g, v) == Len(boost_out_edges(g, v))

degree(g, v) == Len(boost_in_edges(g, v)) + Len(boost_out_edges(g, v))

(***************************************************************************)
(* Vertex operations.                                                      *)
(***************************************************************************)
add_vertex(g, properties) ==
    LET id == FreshId(g.used_v)
    IN  [g   |-> [g EXCEPT !.m_vertices =
                               Append(@, [id               |-> id,
                                          position         |-> properties.position,
                                          is_part_of_cycle |-> properties.is_part_of_cycle]),
                           !.used_v = @ \cup {id}],
         ret |-> id,
         err |-> "none"]

\* every in-edge, then every out-edge, is subtracted from the counter and
\* pushed on the returned list; then boost::clear_vertex drops the edges
clear_vertex(g, vertex) ==
    LET ins  == boost_in_edges(g, vertex)
        outs == boost_out_edges(g, vertex)
        removed_edges == IF degree(g, vertex) # 0 THEN IdSeq(ins) \o IdSeq(outs) ELSE <<>>
        sizes == IF degree(g, vertex) # 0
                 THEN SumSeq([i \in DOMAIN ins |-> Len(ins[i].curve)])
                      + SumSeq([i \in DOMAIN outs |-> Len(outs[i].curve)])
                 ELSE 0
        g1 == [g EXCEPT !.edge_spline_count_ = @ - sizes]
    IN  [g |-> boost_clear_vertex(g1, vertex), ret |-> removed_edges, err |-> "none"]

remove_vertex(g, vertex) ==
    IF vertex # null_vertex
    THEN LET c == clear_vertex(g, vertex)
         IN  [g |-> boost_remove_vertex(c.g, vertex), ret |-> c.ret, err |-> "none"]
    ELSE [g |-> g, ret |-> <<>>, err |-> "none"]

(***************************************************************************)
(* Edge operations.                                                        *)
(***************************************************************************)
\* boost::add_edge with the cycle mark of the properties handed over kept
boost_add_edge_keeping_flag(g, from, to, properties) ==
    LET id == FreshId(g.used_e)
        new_edge == [id               |-> id,
                     source           |-> from,
                     target           |-> to,
                     curve            |-> properties.curve,
                     is_part_of_cycle |-> properties.is_part_of_cycle]
    IN  [g   |-> [g EXCEPT !.m_edges = Append(@, new_edge),
                           !.used_e = @ \cup {id}],
         ret |-> [first |-> id, second |-> TRUE],
         err |-> "none"]

\* boost::add_edge(from, to, properties, g), and the cycle mark of the new
\* edge, which add_edge derives from the marks of the two vertices
boost_add_edge(g, from, to, properties) ==
    LET id == FreshId(g.used_e)
        new_edge == [id               |-> id,
                     source           |-> from,
                     target           |-> to,
                     curve            |-> properties.curve,
                     is_part_of_cycle |-> get_vertex(g, from).is_part_of_cycle
                                          /\ get_vertex(g, to).is_part_of_cycle]
    IN  [g   |-> [g EXCEPT !.m_edges = Append(@, new_edge),
                           !.used_e = @ \cup {id}],
         ret |-> [first |-> id, second |-> TRUE],
         err |-> "none"]

\* add_edge with the counter raised before the endpoints are checked
add_edge_counting_first(g, from, to, properties) ==
    LET g1 == [g EXCEPT !.edge_spline_count_ = @ + Len(properties.curve)]
    IN  IF from = null_vertex \/ to = null_vertex
        THEN [g |-> g1, ret |-> [first |-> null_edge, second |-> FALSE], err |-> "none"]
        ELSE boost_add_edge(g1, from, to, properties)

\* add_edge(from, to, properties)
add_edge(g, from, to, properties) ==
    IF from = null_vertex \/ to = null_vertex
    THEN [g |-> g, ret |-> [first |-> null_edge, second |-> FALSE], err |-> "none"]
    ELSE boost_add_edge([g EXCEPT !.edge_spline_count_ = @ + Len(properties.curve)],
                        from, to, properties)

\* add_edge(from, to): the straight two-point curve
add_edge_from_to(g, from, to) ==
    LET g1 == [g EXCEPT !.edge_spline_count_ = @ + 2]
        position_from == get_vertex(g, from).position
        position_to   == get_vertex(g, to).position
        properties == [curve |-> <<position_from, position_to>>, is_part_of_cycle |-> FALSE]
    IN  add_edge(g1, from, to, properties)

remove_edge(g, edge) ==
    IF edge = null_edge
    THEN [g |-> g, ret |-> <<null_vertex, null_vertex>>, err |-> "none"]
    ELSE
    LET source == boost_source(g, edge)
        target == boost_target(g, edge)
    IN  IF ~boost_edge(g, source, target).second
        THEN [g |-> g, ret |-> <<null_vertex, null_vertex>>, err |-> "none"]
        ELSE
        LET g1 == [g EXCEPT !.edge_spline_count_ = @ - Len(get_edge(g, edge).curve)]
            remove_source == (degree(g, source) = 1)
            remove_target == (degree(g, target) = 1)
            g2 == boost_remove_edge(g1, edge)
            do_source == remove_source /\ vertex_count(g2) # 1
            g3 == IF do_source THEN boost_remove_vertex(g2, source) ELSE g2
            do_target == remove_target /\ vertex_count(g3) # 1
            g4 == IF do_target THEN boost_remove_vertex(g3, target) ELSE g3
        IN  [g   |-> g4,
             ret |-> <<IF do_source THEN source ELSE null_vertex,
                       IF do_target THEN target ELSE null_vertex>>,
             err |-> "none"]

(***************************************************************************)
(* Curve primitives (Curve.hpp is not part of the sources at hand).        *)
(***************************************************************************)
\* SplineCurve::add_middle_point: the sample goes right before the back
add_middle_point(curve, pt) ==
    SubSeq(curve, 1, Len(curve) - 1) \o <<pt>> \o <<curve[Len(curve)]>>

\* for (i = lo; i <= hi; i++) curve.add_middle_point(edge_curve[i]), with the
\* indices of the source (from 0)
RECURSIVE add_middle_points(_, _, _, _)
add_middle_points(curve, edge_curve, lo, hi) ==
    IF lo > hi THEN curve
    ELSE add_middle_points(add_middle_point(curve, edge_curve[lo + 1]), edge_curve, lo + 1, hi)

\* curve.back() = pt
set_back(curve, pt) == [curve EXCEPT ![Len(curve)] = pt]

\* curve.front() = pt
set_front(curve, pt) == [curve EXCEPT ![1] = pt]

\* the samples of a curve in reverse order
reversed(curve) == [i \in DOMAIN curve |-> curve[Len(curve) + 1 - i]]

(***************************************************************************)
(* Geometry-aware rewrites.                                                *)
(***************************************************************************)
\* the assignment left out
set_edge_cycle_forgotten(g, e, c) == g

\* get_edge(e).is_part_of_cycle = c
set_edge_cycle(g, e, c) ==
    [g EXCEPT !.m_edges = [j \in DOMAIN @ |->
        IF @[j].id = e THEN [@[j] EXCEPT !.is_part_of_cycle = c] ELSE @[j]]]

set_vertex_position(g, v, p) ==
    [g EXCEPT !.m_vertices = [j \in DOMAIN @ |->
        IF @[j].id = v THEN [@[j] EXCEPT !.position = p] ELSE @[j]]]

\* split_edge_at once the segment index is known to be valid
split_edge_at_halves(g, edge_to_split, segment_index, new_vertex_position) ==
    LET edge_curve == get_edge(g, edge_to_split).curve
        v == add_vertex(g, [position |-> new_vertex_position, is_part_of_cycle |-> FALSE])
        new_vertex == v.ret
        source_pt == edge_curve[1]
        target_pt == edge_curve[Len(edge_curve)]
        first_half == add_middle_points(<<source_pt, new_vertex_position>>,
                                        edge_curve, 1, segment_index)
        second_half == add_middle_points(<<new_vertex_position, target_pt>>,
                                         edge_curve, segment_index + 1, Len(edge_curve) - 2)
        l == add_edge(v.g, boost_source(g, edge_to_split), new_vertex,
                      [curve |-> first_half, is_part_of_cycle |-> FALSE])
        r == add_edge(l.g, new_vertex, boost_target(g, edge_to_split),
                      [curve |-> second_half, is_part_of_cycle |-> FALSE])
        left_edge == l.ret.first
        right_edge == r.ret.first
        c == get_edge(g, edge_to_split).is_part_of_cycle
        g1 == set_edge_cycle(set_edge_cycle(r.g, left_edge, c), right_edge, c)
        rm == remove_edge(g1, edge_to_split)
    IN  [g |-> rm.g, ret |-> <<new_vertex, <<left_edge, right_edge>>>>, err |-> "none"]

\* split_edge_at with the vertex added before the segment index is checked
split_edge_at_adding_first(g, edge_to_split, segment_index, new_vertex_position) ==
    IF segment_index >= Len(get_edge(g, edge_to_split).curve) - 1
    THEN [g   |-> add_vertex(g, [position |-> new_vertex_position,
                                 is_part_of_cycle |-> FALSE]).g,
          ret |-> <<>>,
          err |-> "invalid_argument"]
    ELSE split_edge_at_halves(g, edge_to_split, segment_index, new_vertex_position)

\* returns <<new_vertex, <<left_edge, right_edge>>>>
split_edge_at(g, edge_to_split, segment_index, new_vertex_position) ==
    IF segment_index >= Len(get_edge(g, edge_to_split).curve) - 1
    THEN [g |-> g, ret |-> <<>>, err |-> "invalid_argument"]
    ELSE split_edge_at_halves(g, edge_to_split, segment_index, new_vertex_position)

\* the first out-edge taken for the first in-edge
first_out_edge(g, vertex) == boost_out_edges(g, vertex)[1].id

\* *(boost::in_edges(vertex, internal_graph_).first)
first_in_edge(g, vertex) == boost_in_edges(g, vertex)[1].id

\* returns <<<<left_vertex, right_vertex>>, <<left_edge, right_edge>>>>
cut_edge_at(g, edge_to_cut, segment_index, new_vertex_position) ==
    LET original_curve == get_edge(g, edge_to_cut).curve
    IN  IF segment_index >= Len(original_curve) - 1
        THEN [g |-> g, ret |-> <<>>, err |-> "invalid_argument"]
        ELSE
        LET direction_to_previous_segment ==
                normalize(original_curve[segment_index + 1] - new_vertex_position)
            direction_to_next_segment ==
                normalize(original_curve[segment_index + 2] - new_vertex_position)
            left_vertex_final_position == new_vertex_position + direction_to_previous_segment
            right_vertex_final_position == new_vertex_position + direction_to_next_segment
            right_vertex_neighborhood ==
                split_edge_at(g, edge_to_cut, segment_index, right_vertex_final_position)
        IN  IF right_vertex_neighborhood.err # "none" THEN right_vertex_neighborhood
            ELSE
            LET right_vertex == right_vertex_neighborhood.ret[1]
                right_edge == right_vertex_neighborhood.ret[2][2]
                left_edge_temp == right_vertex_neighborhood.ret[2][1]
                g1 == right_vertex_neighborhood.g
                last_segment_index == Len(get_edge(g1, left_edge_temp).curve) - 2
                left_vertex_neighborhood ==
                    split_edge_at(g1, left_edge_temp, last_segment_index,
                                  left_vertex_final_position)
            IN  IF left_vertex_neighborhood.err # "none" THEN left_vertex_neighborhood
                ELSE
                LET left_vertex == left_vertex_neighborhood.ret[1]
                    left_edge == left_vertex_neighborhood.ret[2][1]
                    g2 == left_vertex_neighborhood.g
                    middle_edge == first_in_edge(g2, right_vertex)
                    rm == remove_edge(g2, middle_edge)
                IN  [g   |-> rm.g,
                     ret |-> <<<<left_vertex, right_vertex>>, <<left_edge, right_edge>>>>,
                     err |-> "none"]

\* an EdgeDescriptor: the address of the edge and the two endpoints it carries
descriptor(x) == [id |-> x.id, m_source |-> x.source, m_target |-> x.target]

\* for (i...) new_edges.push_back(add_edge(from[i], to[i], props[i]).first)
RECURSIVE add_edges(_, _, _)
add_edges(g, todo, new_edges) ==
    IF todo = <<>> THEN [g |-> g, ret |-> new_edges]
    ELSE LET a == add_edge(g, Head(todo).from, Head(todo).to, Head(todo).props)
         IN  add_edges(a.g, Tail(todo), Append(new_edges, a.ret.first))

\* the target kept unless the option is SOURCE
collapse_ends_target_for_midpoint(source, target, option) ==
    IF option = SOURCE
    THEN [to_keep |-> source, to_remove |-> target]
    ELSE [to_keep |-> target, to_remove |-> source]

\* by default the source is kept; the target is kept for TARGET
collapse_ends(source, target, option) ==
    IF option = TARGET
    THEN [to_keep |-> target, to_remove |-> source]
    ELSE [to_keep |-> source, to_remove |-> target]

\* returns <<<<removed vertex, its removed edges>>, added edges>>
collapse_edge(g, edge_to_collapse, option) ==
    LET source == edge_to_collapse.m_source
        target == edge_to_collapse.m_target
    IN  IF \/ source = null_vertex
           \/ target = null_vertex
           \/ ~boost_edge(g, source, target).second
        THEN [g |-> g, ret |-> <<>>, err |-> "invalid_argument"]
        ELSE
        LET to_keep == collapse_ends(source, target, option).to_keep
            to_remove == collapse_ends(source, target, option).to_remove
            new_position ==
                IF option = MIDPOINT
                THEN (get_vertex(g, source).position + get_vertex(g, target).position) \div 2
                ELSE get_vertex(g, to_keep).position
            ins == SelectSeq(boost_in_edges(g, to_remove),
                             LAMBDA x : x.id # edge_to_collapse.id /\ x.source # to_keep)
            outs == SelectSeq(boost_out_edges(g, to_remove),
                              LAMBDA x : x.id # edge_to_collapse.id /\ x.target # to_keep)
            sources_to_add ==
                [i \in DOMAIN ins |->
                    [from  |-> ins[i].source,
                     to    |-> to_keep,
                     props |-> [curve            |-> set_back(ins[i].curve, new_position),
                                is_part_of_cycle |-> ins[i].is_part_of_cycle]]]
            targets_to_add ==
                [i \in DOMAIN outs |->
                    [from  |-> to_keep,
                     to    |-> outs[i].target,
                     props |-> [curve            |-> set_front(outs[i].curve, new_position),
                                is_part_of_cycle |-> outs[i].is_part_of_cycle]]]
            cleared == clear_vertex(g, to_remove)
            added == add_edges(cleared.g, sources_to_add \o targets_to_add, <<>>)
        IN  [g   |-> set_vertex_position(added.g, to_keep, new_position),
             ret |-> <<<<to_remove, cleared.ret>>, added.ret>>,
             err |-> "none"]

\* merge_vertices without the removal of the cleared vertex
merge_vertices_keeping_both(g, vertex_one, vertex_two, option) ==
    LET new_edge_to_collapse == add_edge_from_to(g, vertex_one, vertex_two)
    IN  IF ~new_edge_to_collapse.ret.second
        THEN [g |-> new_edge_to_collapse.g, ret |-> <<>>, err |-> "invalid_argument"]
        ELSE collapse_edge(new_edge_to_collapse.g,
                           descriptor(get_edge(new_edge_to_collapse.g,
                                               new_edge_to_collapse.ret.first)),
                           option)

merge_vertices(g, vertex_one, vertex_two, option) ==
    LET new_edge_to_collapse == add_edge_from_to(g, vertex_one, vertex_two)
    IN  IF ~new_edge_to_collapse.ret.second
        THEN [g |-> new_edge_to_collapse.g, ret |-> <<>>, err |-> "invalid_argument"]
        ELSE
        LET g1 == new_edge_to_collapse.g
            c == collapse_edge(g1, descriptor(get_edge(g1, new_edge_to_collapse.ret.first)),
                               option)
        IN  IF c.err # "none" THEN c
            ELSE [g   |-> remove_vertex(c.g, c.ret[1][1]).g,
                  ret |-> c.ret,
                  err |-> "none"]

\* the case ->*-> with the merged edge ending where it starts
merge_in_out_to_source(in_edge, out_edge) ==
    [curve  |-> in_edge.curve \o Tail(out_edge.curve),
     cycle  |-> in_edge.is_part_of_cycle,
     source |-> in_edge.source,
     target |-> in_edge.source]

\* the case ->*->: the out curve, less its first sample, goes after the in
\* curve; the merged edge runs from the source of the one to the target of
\* the other
merge_in_out(in_edge, out_edge) ==
    [curve  |-> in_edge.curve \o Tail(out_edge.curve),
     cycle  |-> in_edge.is_part_of_cycle,
     source |-> in_edge.source,
     target |-> out_edge.target]

\* returns <<merged edge, <<removed edge, removed edge>>>>
remove_degree_2_vertex_and_merge_edges(g, vertex_to_remove) ==
    IF degree(g, vertex_to_remove) # 2
    THEN [g |-> g, ret |-> <<>>, err |-> "invalid_argument"]
    ELSE
    LET in_curves == boost_in_edges(g, vertex_to_remove)
        out_curves == boost_out_edges(g, vertex_to_remove)
        sources == [i \in DOMAIN in_curves |-> in_curves[i].source]
        targets == [i \in DOMAIN out_curves |-> out_curves[i].target]
        new ==
            IF Len(in_curves) = 1 /\ Len(out_curves) = 1
            THEN merge_in_out(in_curves[1], out_curves[1])
            ELSE IF Len(in_curves) = 2 /\ Len(out_curves) = 0
            THEN [curve  |-> in_curves[1].curve \o Tail(reversed(in_curves[2].curve)),
                  cycle  |-> in_curves[1].is_part_of_cycle,
                  source |-> sources[1],
                  target |-> sources[2]]
            ELSE [curve  |-> reversed(out_curves[1].curve) \o Tail(out_curves[2].curve),
                  cycle  |-> FALSE,
                  source |-> targets[1],
                  target |-> targets[2]]
    IN  IF new.source # null_vertex /\ new.target # null_vertex
        THEN LET new_edge == add_edge(g, new.source, new.target,
                                      [curve |-> new.curve, is_part_of_cycle |-> new.cycle])
                 removed == remove_vertex(new_edge.g, vertex_to_remove)
             IN  IF new_edge.ret.second /\ Len(removed.ret) = 2
                 THEN [g   |-> removed.g,
                       ret |-> <<new_edge.ret.first, <<removed.ret[1], removed.ret[2]>>>>,
                       err |-> "none"]
                 ELSE [g |-> removed.g, ret |-> <<>>, err |-> "runtime_error"]
        ELSE [g |-> g, ret |-> <<>>, err |-> "runtime_error"]

\* every sample and every vertex goes to (position + displacement) * scale_factor
move_and_scale(g, displacement, scale_factor) ==
    [g   |-> [g EXCEPT
                !.m_vertices = [j \in DOMAIN @ |->
                    [@[j] EXCEPT !.position = (@ + displacement) * scale_factor]],
                !.m_edges = [j \in DOMAIN @ |->
                    [@[j] EXCEPT !.curve = [k \in DOMAIN @ |->
                        (@[k] + displacement) * scale_factor]]]],
     ret |-> <<>>,
     err |-> "none"]

(***************************************************************************)
(* The graph algorithms.  The transient marks of the vertices are kept in  *)
(* records beside the graph: BFS_path_cost and BFS_parent, and             *)
(* is_in_spanning_tree (the set of the vertices marked) and cycle_parent.  *)
(* No parent is null_vertex; (GRuint)-1 is -1.                             *)
(***************************************************************************)
\* a > b for two GRuint
unsigned_greater(a, b) == IF (a < 0) = (b < 0) THEN a > b ELSE a < 0

\* the vertices the two loops over the in-edges and over the out-edges of
\* a vertex visit, in order: the sources of the first, the targets of the
\* second
neighbours(g, v) ==
    LET ins == boost_in_edges(g, v)
        outs == boost_out_edges(g, v)
    IN  [j \in DOMAIN ins |-> ins[j].source] \o [j \in DOMAIN outs |-> outs[j].target]

RECURSIVE bfs_visit(_, _, _, _, _)
\* the two for loops of shortest_path at current_vertex
bfs_visit(st, current_vertex, current_cost, todo, from) ==
    IF todo = <<>> THEN st
    ELSE
    LET x == Head(todo)
        pushed == IF st.BFS_parent[x] = null_vertex
                  THEN [st EXCEPT !.vertex_queue = Append(@, x)]
                  ELSE st
        st1 == IF st.BFS_parent[current_vertex] = x THEN st
               ELSE IF unsigned_greater(pushed.BFS_path_cost[x], current_cost + 1)
               THEN [pushed EXCEPT !.BFS_path_cost[x] = current_cost + 1,
                                   !.BFS_parent[x] = current_vertex,
                                   !.found_target = @ \/ x = from]
               ELSE pushed
    IN  bfs_visit(st1, current_vertex, current_cost, Tail(todo), from)

RECURSIVE bfs_loop_thrice(_, _, _, _)
\* the while loop of shortest_path let run for three times vertex_count
bfs_loop_thrice(g, st, from, iteration_count) ==
    IF iteration_count < vertex_count(g) * 3 /\ st.vertex_queue # <<>>
    THEN LET current_vertex == Head(st.vertex_queue)
             popped == [st EXCEPT !.vertex_queue = Tail(@)]
         IN  bfs_loop_thrice(g,
                             bfs_visit(popped, current_vertex,
                                       popped.BFS_path_cost[current_vertex],
                                       neighbours(g, current_vertex), from),
                             from, iteration_count + 1)
    ELSE [st EXCEPT !.iteration_count = iteration_count]

RECURSIVE bfs_loop(_, _, _, _)
\* the while loop of shortest_path
bfs_loop(g, st, from, iteration_count) ==
    IF iteration_count < vertex_count(g) * 2 /\ st.vertex_queue # <<>>
    THEN LET current_vertex == Head(st.vertex_queue)
             popped == [st EXCEPT !.vertex_queue = Tail(@)]
         IN  bfs_loop(g,
                      bfs_visit(popped, current_vertex,
                                popped.BFS_path_cost[current_vertex],
                                neighbours(g, current_vertex), from),
                      from, iteration_count + 1)
    ELSE [st EXCEPT !.iteration_count = iteration_count]

RECURSIVE back_track(_, _, _)
\* the parents from next_parent on, put after path
back_track(st, path, next_parent) ==
    IF next_parent = null_vertex THEN path
    ELSE back_track(st, Append(path, next_parent), st.BFS_parent[next_parent])

\* the transient marks of the vertices as the constructor of
\* VertexProperties leaves them
cleared_marks(g) ==
    [BFS_path_cost       |-> [v \in Ids(g.m_vertices) |-> -1],
     BFS_parent          |-> [v \in Ids(g.m_vertices) |-> null_vertex],
     cycle_parent        |-> [v \in Ids(g.m_vertices) |-> null_vertex],
     is_in_spanning_tree |-> {}]

\* the number of iterations of the loops of a call: the largest one of its
\* while loops over a queue, and the longest of its walks from parent to
\* parent, which ended at a vertex without parent (rooted) or not
no_steps == [loop |-> 0, walk |-> 0, rooted |-> TRUE]

\* shortest_path(from, to) on vertices whose marks are cleared; the failure
\* is the std::invalid_argument thrown when no path is found; marks are the
\* transient marks that the call leaves in the vertices
shortest_path(g, from, to) ==
    IF from = to
    THEN [g |-> g, ret |-> <<from>>, err |-> "none",
          marks |-> cleared_marks(g), steps |-> no_steps]
    ELSE
    LET reset == [vertex_queue  |-> <<to>>,
                  BFS_path_cost |-> [v \in Ids(g.m_vertices) |-> IF v = to THEN 0 ELSE -1],
                  BFS_parent    |-> [v \in Ids(g.m_vertices) |-> null_vertex],
                  found_target  |-> FALSE,
                  iteration_count |-> 0]
        st == bfs_loop(g, reset, from, 0)
        path == back_track(st, <<from>>, st.BFS_parent[from])
    IN  IF ~st.found_target
        THEN [g |-> g, ret |-> <<>>, err |-> "invalid_argument",
              marks |-> [cleared_marks(g) EXCEPT !.BFS_path_cost = st.BFS_path_cost,
                                                 !.BFS_parent = st.BFS_parent],
              steps |-> [no_steps EXCEPT !.loop = st.iteration_count]]
        ELSE [g |-> g, ret |-> path, err |-> "none",
              marks |-> cleared_marks(g),
              steps |-> [loop |-> st.iteration_count, walk |-> Len(path) - 1,
                         rooted |-> TRUE]]

RECURSIVE explore_from_vertex(_, _, _, _)
\* explore_from_vertex: the while loop, from the queue and the marks given;
\* returns the vertices marked is_in_spanning_tree and the number of
\* iterations made
explore_from_vertex(g, is_in_spanning_tree, vertex_queue, iteration_count) ==
    IF iteration_count < vertex_count(g) * 2 /\ vertex_queue # <<>>
    THEN LET current_vertex == Head(vertex_queue)
         IN  IF current_vertex \notin is_in_spanning_tree
             THEN explore_from_vertex(g, is_in_spanning_tree \cup {current_vertex},
                                      Tail(vertex_queue) \o neighbours(g, current_vertex),
                                      iteration_count + 1)
             ELSE explore_from_vertex(g, is_in_spanning_tree, Tail(vertex_queue),
                                      iteration_count + 1)
    ELSE [is_in_spanning_tree |-> is_in_spanning_tree, iteration_count |-> iteration_count]

\* the larger of two numbers
larger(a, b) == IF a > b THEN a ELSE b

RECURSIVE count_from(_, _, _)
\* the for loop of count_connected_components over the vertices todo; st
\* holds the marks is_in_spanning_tree, cc_count and the largest number of
\* iterations of explore_from_vertex
count_from(g, todo, st) ==
    IF todo = <<>> THEN st
    ELSE IF Head(todo) \notin st.is_in_spanning_tree
    THEN LET explored == explore_from_vertex(g, st.is_in_spanning_tree, <<Head(todo)>>, 0)
         IN  count_from(g, Tail(todo),
                        [is_in_spanning_tree |-> explored.is_in_spanning_tree,
                         cc_count |-> st.cc_count + 1,
                         loop |-> larger(st.loop, explored.iteration_count)])
    ELSE count_from(g, Tail(todo), st)

\* count_connected_components with a last loop that clears is_part_of_cycle
\* where it should clear is_in_spanning_tree
count_connected_components_unflagging(g) ==
    LET st == count_from(g, IdSeq(g.m_vertices),
                         [is_in_spanning_tree |-> cleared_marks(g).is_in_spanning_tree,
                          cc_count |-> 0, loop |-> 0])
    IN  [g |-> [g EXCEPT !.m_vertices = [j \in DOMAIN g.m_vertices |->
                    [g.m_vertices[j] EXCEPT !.is_part_of_cycle = FALSE]]],
         ret |-> st.cc_count, err |-> "none",
         marks |-> [cleared_marks(g) EXCEPT !.is_in_spanning_tree = st.is_in_spanning_tree],
         steps |-> [no_steps EXCEPT !.loop = st.loop]]

\* count_connected_components() on vertices whose marks are cleared; the
\* last loop clears is_in_spanning_tree
count_connected_components(g) ==
    LET st == count_from(g, IdSeq(g.m_vertices),
                         [is_in_spanning_tree |-> cleared_marks(g).is_in_spanning_tree,
                          cc_count |-> 0, loop |-> 0])
    IN  IF vertex_count(g) = 0
        THEN [g |-> g, ret |-> 0, err |-> "none",
              marks |-> cleared_marks(g), steps |-> no_steps]
        ELSE [g |-> g, ret |-> st.cc_count, err |-> "none",
              marks |-> [cleared_marks(g) EXCEPT !.is_in_spanning_tree = {}],
              steps |-> [no_steps EXCEPT !.loop = st.loop]]

RECURSIVE path_from_root(_, _, _, _)
\* the first while loops of find_cycle_in_spanning_tree: the parents of the
\* front of path are pushed at its front, iteration_count_limit times at most
path_from_root(cycle_parent, path, iteration_count, iteration_count_limit) ==
    LET parent_vertex == cycle_parent[Head(path)]
    IN  IF iteration_count < iteration_count_limit /\ parent_vertex # null_vertex
        THEN path_from_root(cycle_parent, <<parent_vertex>> \o path,
                            iteration_count + 1, iteration_count_limit)
        ELSE path

RECURSIVE pop_common_front(_, _, _)
\* the two paths without their common front, and the last vertex popped
pop_common_front(path_one, path_two, bifurcation) ==
    IF path_one # <<>> /\ path_two # <<>> /\ Head(path_one) = Head(path_two)
    THEN pop_common_front(Tail(path_one), Tail(path_two), Head(path_one))
    ELSE [path_one |-> path_one, path_two |-> path_two, bifurcation |-> bifurcation]

RECURSIVE mark_path_edges_only(_, _, _, _)
\* the edges of the path marked, its vertices left as they were
mark_path_edges_only(g, marks, last_vertex, path) ==
    IF path = <<>> \/ marks.failed THEN marks
    ELSE
    LET next_vertex == Head(path)
        in_edge == boost_edge(g, next_vertex, last_vertex)
        out_edge == boost_edge(g, last_vertex, next_vertex)
    IN  IF in_edge.second
        THEN mark_path_edges_only(g, [marks EXCEPT !.edges = @ \cup {in_edge.first}],
                                  next_vertex, Tail(path))
        ELSE IF out_edge.second
        THEN mark_path_edges_only(g, [marks EXCEPT !.edges = @ \cup {out_edge.first}],
                                  next_vertex, Tail(path))
        ELSE [marks EXCEPT !.failed = TRUE]

RECURSIVE mark_path(_, _, _, _)
\* the for loop over a path of find_cycle_in_spanning_tree: every vertex of
\* the path is marked, and one edge between it and the vertex before it;
\* failed stands for exit(EXIT_FAILURE)
mark_path(g, marks, last_vertex, path) ==
    IF path = <<>> \/ marks.failed THEN marks
    ELSE
    LET next_vertex == Head(path)
        in_edge == boost_edge(g, next_vertex, last_vertex)
        out_edge == boost_edge(g, last_vertex, next_vertex)
        marked == [marks EXCEPT !.vertices = @ \cup {next_vertex}]
    IN  IF in_edge.second
        THEN mark_path(g, [marked EXCEPT !.edges = @ \cup {in_edge.first}],
                       next_vertex, Tail(path))
        ELSE IF out_edge.second
        THEN mark_path(g, [marked EXCEPT !.edges = @ \cup {out_edge.first}],
                       next_vertex, Tail(path))
        ELSE [marked EXCEPT !.failed = TRUE]

\* one of the edges between vertex_one and vertex_two only
edges_between_first_only(g, vertex_one, vertex_two) ==
    LET found == {x.id : x \in {y \in Range(boost_in_edges(g, vertex_one)) : y.source = vertex_two}
                                 \cup {y \in Range(boost_out_edges(g, vertex_one)) : y.target = vertex_two}}
    IN  IF found = {} THEN {} ELSE {CHOOSE e \in found : \A f \in found : e <= f}

\* the last two loops of find_cycle_in_spanning_tree: the in-edges of
\* vertex_one that come from vertex_two and its out-edges that go to it
edges_between(g, vertex_one, vertex_two) ==
    {x.id : x \in {y \in Range(boost_in_edges(g, vertex_one)) : y.source = vertex_two}
                  \cup {y \in Range(boost_out_edges(g, vertex_one)) : y.target = vertex_two}}

\* find_cycle_in_spanning_tree with the vertex where the two paths part
\* left unmarked
find_cycle_in_spanning_tree_past_bifurcation(g, cycle_parent, marks, vertex_one, vertex_two) ==
    LET limit == vertex_count(g) + 1
        path_one == path_from_root(cycle_parent, <<vertex_one>>, 0, limit)
        path_two == path_from_root(cycle_parent, <<vertex_two>>, 0, limit)
        cut == pop_common_front(path_one, path_two, Head(path_one))
        m1 == mark_path(g, marks, cut.bifurcation, cut.path_one)
        m2 == mark_path(g, m1, cut.bifurcation, cut.path_two)
    IN  IF m2.failed THEN m2
        ELSE [m2 EXCEPT !.edges = @ \cup edges_between(g, vertex_one, vertex_two)]

\* find_cycle_in_spanning_tree(vertex_one, vertex_two): marks holds the
\* vertices and the edges whose is_part_of_cycle is set
find_cycle_in_spanning_tree(g, cycle_parent, marks, vertex_one, vertex_two) ==
    LET limit == vertex_count(g) + 1
        path_one == path_from_root(cycle_parent, <<vertex_one>>, 0, limit)
        path_two == path_from_root(cycle_parent, <<vertex_two>>, 0, limit)
        cut == pop_common_front(path_one, path_two, Head(path_one))
        m0 == [marks EXCEPT !.vertices = @ \cup {cut.bifurcation}]
        m1 == mark_path(g, m0, cut.bifurcation, cut.path_one)
        m2 == mark_path(g, m1, cut.bifurcation, cut.path_two)
        walked == [m2 EXCEPT
                     !.walk = larger(@, larger(Len(path_one), Len(path_two)) - 1),
                     !.rooted = /\ @
                                /\ cycle_parent[Head(path_one)] = null_vertex
                                /\ cycle_parent[Head(path_two)] = null_vertex]
    IN  IF walked.failed THEN walked
        ELSE [walked EXCEPT !.edges = @ \cup edges_between(g, vertex_one, vertex_two)]

RECURSIVE cycles_visit(_, _, _, _)
\* the two for loops of find_cycles at current_vertex
cycles_visit(g, st, current_vertex, todo) ==
    IF todo = <<>> \/ st.marks.failed THEN st
    ELSE
    LET x == Head(todo)
        st1 == IF st.cycle_parent[current_vertex] = x THEN st
               ELSE IF x \in st.is_in_spanning_tree
               THEN [st EXCEPT !.marks = find_cycle_in_spanning_tree(
                                             g, st.cycle_parent, @, current_vertex, x)]
               ELSE [st EXCEPT !.vertex_queue = Append(@, x),
                               !.is_in_spanning_tree = @ \cup {x},
                               !.cycle_parent[x] = current_vertex]
    IN  cycles_visit(g, st1, current_vertex, Tail(todo))

RECURSIVE cycles_loop(_, _, _)
\* the while loop of find_cycles
cycles_loop(g, st, iteration_count) ==
    IF iteration_count < vertex_count(g) * 2 /\ st.vertex_queue # <<>> /\ ~st.marks.failed
    THEN LET current_vertex == Head(st.vertex_queue)
         IN  cycles_loop(g,
                         cycles_visit(g, [st EXCEPT !.vertex_queue = Tail(@)],
                                      current_vertex, neighbours(g, current_vertex)),
                         iteration_count + 1)
    ELSE [st EXCEPT !.loop = larger(@, iteration_count)]

RECURSIVE cycles_from(_, _, _)
\* the for loop of find_cycles over the vertices todo
cycles_from(g, st, todo) ==
    IF todo = <<>> \/ st.marks.failed THEN st
    ELSE IF Head(todo) \notin st.is_in_spanning_tree
    THEN cycles_from(g,
                     cycles_loop(g, [st EXCEPT !.vertex_queue = <<Head(todo)>>,
                                               !.is_in_spanning_tree = @ \cup {Head(todo)}], 0),
                     Tail(todo))
    ELSE cycles_from(g, st, Tail(todo))

\* find_cycles() on vertices whose marks are cleared; the failure "exit" is
\* exit(EXIT_FAILURE); the last loop clears cycle_parent and
\* is_in_spanning_tree
find_cycles(g) ==
    LET st == cycles_from(g,
                          [vertex_queue |-> <<>>,
                           is_in_spanning_tree |-> cleared_marks(g).is_in_spanning_tree,
                           cycle_parent |-> cleared_marks(g).cycle_parent,
                           loop |-> 0,
                           marks |-> [vertices |-> {}, edges |-> {}, failed |-> FALSE,
                                      walk |-> 0, rooted |-> TRUE]],
                          IdSeq(g.m_vertices))
        marked == [g EXCEPT
                     !.m_vertices = [j \in DOMAIN g.m_vertices |->
                         [g.m_vertices[j] EXCEPT
                             !.is_part_of_cycle = g.m_vertices[j].id \in st.marks.vertices]],
                     !.m_edges = [j \in DOMAIN g.m_edges |->
                         [g.m_edges[j] EXCEPT
                             !.is_part_of_cycle = g.m_edges[j].id \in st.marks.edges]]]
    IN  [g |-> marked, ret |-> <<>>, err |-> IF st.marks.failed THEN "exit" ELSE "none",
         marks |-> IF st.marks.failed
                   THEN [cleared_marks(g) EXCEPT !.cycle_parent = st.cycle_parent,
                                                 !.is_in_spanning_tree = st.is_in_spanning_tree]
                   ELSE [cleared_marks(g) EXCEPT
                             !.cycle_parent = [v \in Ids(g.m_vertices) |-> null_vertex],
                             !.is_in_spanning_tree = {}],
         steps |-> [loop |-> st.loop, walk |-> st.marks.walk, rooted |-> st.marks.rooted]]

(***************************************************************************)
(* split_path.                                                             *)
(***************************************************************************)
\* the edge between two vertices next to each other on a path: from a to b
\* if there is one, else from b to a, else none
path_edge(g, a, b) ==
    IF boost_edge(g, a, b).second THEN boost_edge(g, a, b)
    ELSE boost_edge(g, b, a)

\* DeformableSplineCurve(curve, reverse)
oriented(curve, reverse) == IF reverse THEN reversed(curve) ELSE curve

RECURSIVE convert_to_curve_from(_, _, _, _)
\* the for loop of convert_to_curve from the index i (from 1 here)
convert_to_curve_from(g, path, new_curve, i) ==
    IF i > Len(path) - 1 THEN new_curve
    ELSE
    LET next_edge == path_edge(g, path[i], path[i + 1])
    IN  IF ~next_edge.second THEN new_curve
        ELSE convert_to_curve_from(
                 g, path,
                 new_curve \o Tail(oriented(get_edge(g, next_edge.first).curve,
                                            path[i] = boost_target(g, next_edge.first))),
                 i + 1)

\* convert_to_curve(path): the curves of the edges along the path, end to end
convert_to_curve(g, path) ==
    IF Len(path) > 1
    THEN LET first_edge == path_edge(g, path[1], path[2])
         IN  IF ~first_edge.second THEN <<>>
             ELSE convert_to_curve_from(
                      g, path,
                      oriented(get_edge(g, first_edge.first).curve,
                               path[1] = boost_target(g, first_edge.first)),
                      2)
    ELSE <<>>

RECURSIVE min_size_index_from(_, _, _, _)
\* the loop that finds the first smallest of sizes
min_size_index_from(sizes, i, min_size, min_size_index) ==
    IF i > Len(sizes) THEN min_size_index
    ELSE IF min_size < 0 \/ sizes[i] < min_size
    THEN min_size_index_from(sizes, i + 1, sizes[i], i)
    ELSE min_size_index_from(sizes, i + 1, min_size, min_size_index)

\* the curve of the new edge of split_path when new_edge_displacement is 0:
\* neither end is cut back, and the middle goes in without its two ends
\* when it has more than two samples
split_path_curve(new_edge_curve_start, new_edge_curve_middle, new_edge_curve_end) ==
    (IF Len(new_edge_curve_middle) > 2
     THEN new_edge_curve_start
              \o SubSeq(new_edge_curve_middle, 2, Len(new_edge_curve_middle) - 1)
     ELSE new_edge_curve_start)
        \o new_edge_curve_end

\* one turn of the for loop with no added edge ever marked as not valid
merge_one_keeping_valid(st, vertex_to_check, result) ==
    IF result.err # "none"
    THEN [st EXCEPT !.g = result.g, !.err = result.err]
    ELSE
    LET first == result.ret[2][1]
        second == result.ret[2][2]
    IN  [g |-> result.g,
         err |-> "none",
         added_edge_is_still_valid |-> st.added_edge_is_still_valid \o <<TRUE>>,
         added_edges |-> Append(st.added_edges, result.ret[1]),
         removed_vertices |-> Append(st.removed_vertices, vertex_to_check),
         removed_edges |->
             st.removed_edges
                 \o (IF first \in Range(st.added_edges) THEN <<>> ELSE <<first>>)
                 \o (IF second \in Range(st.added_edges) THEN <<>> ELSE <<second>>)]

\* one turn of the for loop of remove_vertices_of_degree_2_and_merge_edges
\* on a vertex of degree 2, result being what
\* remove_degree_2_vertex_and_merge_edges returned for it
merge_one(st, vertex_to_check, result) ==
    IF result.err # "none"
    THEN [st EXCEPT !.g = result.g, !.err = result.err]
    ELSE
    LET first == result.ret[2][1]
        second == result.ret[2][2]
        hit(i) == st.added_edges[i] = first \/ st.added_edges[i] = second
    IN  [g |-> result.g,
         err |-> "none",
         added_edge_is_still_valid |->
             [i \in DOMAIN st.added_edges |->
                 st.added_edge_is_still_valid[i] /\ ~hit(i)] \o <<TRUE>>,
         added_edges |-> Append(st.added_edges, result.ret[1]),
         removed_vertices |-> Append(st.removed_vertices, vertex_to_check),
         removed_edges |->
             st.removed_edges
                 \o (IF first \in Range(st.added_edges) THEN <<>> ELSE <<first>>)
                 \o (IF second \in Range(st.added_edges) THEN <<>> ELSE <<second>>)]

RECURSIVE merge_each(_, _, _)
\* the for loop of remove_vertices_of_degree_2_and_merge_edges; a vertex
\* to check that remove_edge has freed has whatever degree is read there:
\* 2 (stale) and the call goes on in freed memory, or not 2
merge_each(st, vertices_to_check, stale) ==
    IF vertices_to_check = <<>> \/ st.err # "none" THEN st
    ELSE
    LET vertex_to_check == Head(vertices_to_check)
        live == vertex_to_check \in Ids(st.g.m_vertices)
    IN  IF ~live /\ stale THEN [st EXCEPT !.err = "undefined"]
        ELSE IF live /\ degree(st.g, vertex_to_check) = 2
        THEN merge_each(
                 merge_one(st, vertex_to_check,
                           remove_degree_2_vertex_and_merge_edges(st.g, vertex_to_check)),
                 Tail(vertices_to_check), stale)
        ELSE merge_each(st, Tail(vertices_to_check), stale)

\* returns <<added edges, <<removed vertices, removed edges>>>>
remove_vertices_of_degree_2_and_merge_edges(g, vertices_to_check, stale) ==
    LET st == merge_each([g |-> g, err |-> "none", added_edge_is_still_valid |-> <<>>,
                          added_edges |-> <<>>, removed_vertices |-> <<>>,
                          removed_edges |-> <<>>],
                         vertices_to_check, stale)
        truly_added_edges ==
            LET kept == SelectSeq([i \in DOMAIN st.added_edges |-> i],
                                  LAMBDA i : st.added_edge_is_still_valid[i])
            IN  [j \in DOMAIN kept |-> st.added_edges[kept[j]]]
    IN  IF st.err # "none" THEN [g |-> st.g, ret |-> <<>>, err |-> st.err]
        ELSE [g   |-> st.g,
              ret |-> <<truly_added_edges, <<st.removed_vertices, st.removed_edges>>>>,
              err |-> "none"]

\* what split_path returns: the lists of the merges, with the new edge and
\* the two edges given
split_path_return(degree_2_removal_result, new_edge, source_edge, target_edge) ==
    IF degree_2_removal_result.err # "none"
    THEN degree_2_removal_result
    ELSE [g   |-> degree_2_removal_result.g,
          ret |-> <<Append(degree_2_removal_result.ret[1], new_edge.ret.first),
                    <<degree_2_removal_result.ret[2][1],
                      degree_2_removal_result.ret[2][2]
                          \o <<source_edge.id, target_edge.id>>>>>>,
          err |-> "none"]

\* split_path once the new edge is added: the two edges are removed, and
\* the vertices of the path that are left with two edges are merged away
split_path_remove(new_edge, the_path, source_edge, target_edge, stale) ==
    split_path_return(
        remove_vertices_of_degree_2_and_merge_edges(
            remove_edge(remove_edge(new_edge.g, source_edge.id).g, target_edge.id).g,
            the_path, stale),
        new_edge, source_edge, target_edge)

\* split_path once the shortest of the four paths is chosen
split_path_along(g, source_edge, target_edge, stale, min_size_index, the_path) ==
    LET new_edge_curve_start ==
            oriented(get_edge(g, source_edge.id).curve, min_size_index \in {1, 2})
        new_edge_curve_end ==
            oriented(get_edge(g, target_edge.id).curve, min_size_index \in {2, 4})
        new_source == IF min_size_index \in {1, 2} THEN source_edge.m_target
                      ELSE source_edge.m_source
        new_target == IF min_size_index \in {1, 3} THEN target_edge.m_target
                      ELSE target_edge.m_source
    IN  split_path_remove(
            add_edge(g, new_source, new_target,
                     [curve |-> split_path_curve(new_edge_curve_start,
                                                 convert_to_curve(g, the_path),
                                                 new_edge_curve_end),
                      is_part_of_cycle |-> FALSE]),
            the_path, source_edge, target_edge, stale)

\* split_path once the four paths are found
split_path_shortest(g, source_edge, target_edge, stale, paths, min_size_index) ==
    IF \E i \in 1..4 : paths[i].err # "none"
    THEN [g |-> g, ret |-> <<>>, err |-> "invalid_argument"]
    ELSE split_path_along(g, source_edge, target_edge, stale, min_size_index,
                          paths[min_size_index].ret)

\* the first shortest of the four paths
shortest_of(paths) ==
    min_size_index_from([i \in 1..4 |-> Len(paths[i].ret)], 1, -1, 1)

\* the paths between the ends of the two edges, and the first shortest
split_path_paths(g, source_edge, target_edge, stale, paths) ==
    split_path_shortest(g, source_edge, target_edge, stale, paths, shortest_of(paths))

\* split_path once the two edges are known to differ
split_path_unchecked(g, source_edge, target_edge, stale) ==
    split_path_paths(g, source_edge, target_edge, stale,
                     <<shortest_path(g, source_edge.m_source, target_edge.m_source),
                       shortest_path(g, source_edge.m_source, target_edge.m_target),
                       shortest_path(g, source_edge.m_target, target_edge.m_source),
                       shortest_path(g, source_edge.m_target, target_edge.m_target)>>)

\* the failure raised once the edge given twice has been removed
split_path_failing_late(g, source_edge, target_edge, stale) ==
    IF source_edge.id = target_edge.id
    THEN [g |-> remove_edge(g, source_edge.id).g, ret |-> <<>>, err |-> "invalid_argument"]
    ELSE split_path_unchecked(g, source_edge, target_edge, stale)

\* split_path(source_edge, target_edge, 0); returns
\* <<added edges, <<removed vertices, removed edges>>>>
split_path(g, source_edge, target_edge, stale) ==
    IF source_edge.id = target_edge.id
    THEN [g |-> g, ret |-> <<>>, err |-> "invalid_argument"]
    ELSE split_path_unchecked(g, source_edge, target_edge, stale)

(***************************************************************************)
(* split_edge_along_curve.                                                 *)
(***************************************************************************)
\* SplineCurve::pop_back
pop_back(curve) == SubSeq(curve, 1, Len(curve) - 1)

RECURSIVE scan_edges(_, _, _, _, _, _, _)
\* one of the four loops of split_edge_along_curve over the in-edges or the
\* out-edges of an end of the edge to split: far[j] is the other end of
\* edges[j]; an edge from new_source gives the start of the new curve, an
\* edge from new_target its end; out tells the out-edges from the in-edges
\* and at_target the loops at the target from those at the source
scan_edges(st, edges, far, new_source, new_target, out, at_target) ==
    IF edges = <<>> THEN st
    ELSE
    LET x == Head(edges)
        st1 == IF Head(far) = new_source
               THEN [st EXCEPT !.new_curve_start = oriented(x.curve, out),
                               !.reverse_middle = at_target,
                               !.edges_to_remove = Append(@, descriptor(x))]
               ELSE IF Head(far) = new_target
               THEN [st EXCEPT !.new_curve_end = oriented(x.curve, ~out),
                               !.reverse_middle = ~at_target,
                               !.edges_to_remove = Append(@, descriptor(x))]
               ELSE st
    IN  scan_edges(st1, Tail(edges), Tail(far), new_source, new_target, out, at_target)

\* the new curve: the start without its back, the middle between the back
\* of the start and the second sample of the end, without its two ends, and
\* the end without its front
along_curve(new_curve_start, removed_edge_curve, new_curve_end, reverse_middle) ==
    LET start == pop_back(new_curve_start)
        middle == pop_back(set_back(set_front(oriented(removed_edge_curve, reverse_middle),
                                              start[Len(start)]),
                                    new_curve_end[2]))
    IN  start \o Tail(middle) \o Tail(new_curve_end)

RECURSIVE connect_each(_, _, _, _)
\* the loop of split_edge_along_curve over the pairs
connect_each(st, edge_to_split, removed_edge_curve, pairs) ==
    IF pairs = <<>> THEN st
    ELSE
    LET new_source_vertex == Head(pairs)[1]
        new_target_vertex == Head(pairs)[2]
        source_ins == boost_in_edges(st.g, edge_to_split.m_source)
        source_outs == boost_out_edges(st.g, edge_to_split.m_source)
        target_ins == boost_in_edges(st.g, edge_to_split.m_target)
        target_outs == boost_out_edges(st.g, edge_to_split.m_target)
        s0 == [new_curve_start |-> <<>>, new_curve_end |-> <<>>, reverse_middle |-> FALSE,
               edges_to_remove |-> st.edges_to_remove]
        s1 == scan_edges(s0, source_ins, [j \in DOMAIN source_ins |-> source_ins[j].source],
                         new_source_vertex, new_target_vertex, FALSE, FALSE)
        s2 == scan_edges(s1, source_outs, [j \in DOMAIN source_outs |-> source_outs[j].target],
                         new_source_vertex, new_target_vertex, TRUE, FALSE)
        s3 == scan_edges(s2, target_ins, [j \in DOMAIN target_ins |-> target_ins[j].source],
                         new_source_vertex, new_target_vertex, FALSE, TRUE)
        s4 == scan_edges(s3, target_outs, [j \in DOMAIN target_outs |-> target_outs[j].target],
                         new_source_vertex, new_target_vertex, TRUE, TRUE)
        new_edge == add_edge(st.g, new_source_vertex, new_target_vertex,
                             [curve |-> along_curve(s4.new_curve_start, removed_edge_curve,
                                                    s4.new_curve_end, s4.reverse_middle),
                              is_part_of_cycle |-> FALSE])
    IN  connect_each([g |-> new_edge.g,
                      edges_to_remove |-> s4.edges_to_remove,
                      new_edges |-> Append(st.new_edges, new_edge.ret.first)],
                     edge_to_split, removed_edge_curve, Tail(pairs))

\* remove_edge(edge) on a descriptor that may be stale: the edge is gone and
\* so may be its ends; boost::edge then reads a freed vertex, or finds
\* another edge between the two ends and the freed edge is read and removed
remove_edge_stale(g, edge) ==
    IF edge.id \in Ids(g.m_edges) THEN remove_edge(g, edge.id)
    ELSE IF \/ edge.m_source \notin Ids(g.m_vertices)
            \/ edge.m_target \notin Ids(g.m_vertices)
            \/ boost_edge(g, edge.m_source, edge.m_target).second
    THEN [g |-> g, ret |-> <<null_vertex, null_vertex>>, err |-> "undefined"]
    ELSE [g |-> g, ret |-> <<null_vertex, null_vertex>>, err |-> "none"]

RECURSIVE remove_listed(_, _)
\* the last loop of split_edge_along_curve
remove_listed(st, edges_to_remove) ==
    IF edges_to_remove = <<>> \/ st.err # "none" THEN st
    ELSE
    LET vertices == remove_edge_stale(st.g, Head(edges_to_remove))
        first == IF vertices.ret[1] # null_vertex THEN <<vertices.ret[1]>> ELSE <<>>
        second == IF vertices.ret[2] # null_vertex THEN <<vertices.ret[2]>> ELSE <<>>
    IN  remove_listed([g |-> vertices.g, err |-> vertices.err,
                       removed_vertices |-> st.removed_vertices \o first \o second],
                      Tail(edges_to_remove))

\* returns <<<<removed vertices, removed edges>>, <<added vertices, added
\* edges>>>>
split_edge_along_curve(g, edge_to_split, new_edges_sources_and_targets) ==
    IF ~boost_edge(g, edge_to_split.m_source, edge_to_split.m_target).second
    THEN [g |-> g, ret |-> <<<<<<>>, <<>>>>, <<<<>>, <<>>>>>>, err |-> "none"]
    ELSE
    LET connected == connect_each([g |-> g, edges_to_remove |-> <<>>, new_edges |-> <<>>],
                                  edge_to_split, get_edge(g, edge_to_split.id).curve,
                                  new_edges_sources_and_targets)
        edges_to_remove == Append(connected.edges_to_remove, edge_to_split)
        removed == remove_listed([g |-> connected.g, err |-> "none",
                                  removed_vertices |-> <<>>],
                                 edges_to_remove)
    IN  [g   |-> removed.g,
         ret |-> <<<<removed.removed_vertices, IdSeq(edges_to_remove)>>,
                   <<<<>>, connected.new_edges>>>>,
         err |-> removed.err]

(***************************************************************************)
(* The bulk operations.                                                    *)
(***************************************************************************)
\* a - b when a >= b, b - a otherwise
Gap(a, b) == IF a >= b THEN a - b ELSE b - a

\* curve.length(): the length of the polyline through the samples
curve_length(c) == SumSeq([k \in 1..(Len(c) - 1) |-> Gap(c[k + 1], c[k])])

RECURSIVE collapse_each(_, _, _)
\* the second loop of collapse_edges_shorter_than: each edge collected is
\* collapsed at its midpoint and the vertex it returns is collected; an
\* std::invalid_argument is caught and the edge skipped
collapse_each(g, edges_to_collapse, vertices_to_remove) ==
    IF edges_to_collapse = <<>> THEN [g |-> g, ret |-> vertices_to_remove]
    ELSE
    LET r == collapse_edge(g, Head(edges_to_collapse), MIDPOINT)
    IN  IF r.err = "invalid_argument"
        THEN collapse_each(g, Tail(edges_to_collapse), vertices_to_remove)
        ELSE collapse_each(r.g, Tail(edges_to_collapse),
                           IF r.ret[1][1] # null_vertex
                           THEN Append(vertices_to_remove, r.ret[1][1])
                           ELSE vertices_to_remove)

RECURSIVE remove_each(_, _)
\* for (auto vertex : vertices_to_remove) remove_vertex(vertex)
remove_each(g, vertices_to_remove) ==
    IF vertices_to_remove = <<>> THEN g
    ELSE remove_each(remove_vertex(g, Head(vertices_to_remove)).g, Tail(vertices_to_remove))

\* the first loop of collapse_edges_shorter_than: the edges shorter than
\* min_length neither end of which has degree 1
short_edges(g, min_length) ==
    SelectSeq(g.m_edges, LAMBDA x : /\ curve_length(x.curve) < min_length
                                    /\ degree(g, x.source) # 1
                                    /\ degree(g, x.target) # 1)

collapse_edges_shorter_than(g, min_length) ==
    LET found == short_edges(g, min_length)
        edges_to_collapse == [j \in DOMAIN found |-> descriptor(found[j])]
        collapsed == collapse_each(g, edges_to_collapse, <<>>)
    IN  [g   |-> remove_each(collapsed.g, collapsed.ret),
         ret |-> Len(collapsed.ret),
         err |-> "none"]

RECURSIVE remove_of_degree(_, _, _)
\* the loop of remove_vertices_of_degree over the vertices todo: the degree
\* of each is read when it is visited
remove_of_degree(g, todo, k) ==
    IF todo = <<>> THEN g
    ELSE IF Len(boost_in_edges(g, Head(todo))) + Len(boost_out_edges(g, Head(todo))) = k
    THEN remove_of_degree(remove_vertex(g, Head(todo)).g, Tail(todo), k)
    ELSE remove_of_degree(g, Tail(todo), k)

remove_vertices_of_degree(g, k) ==
    [g |-> remove_of_degree(g, IdSeq(g.m_vertices), k), ret |-> <<>>, err |-> "none"]

(***************************************************************************)
(* export_to_file and import_from_file.  A file is the sequence of its     *)
(* lines; a line is [tag, text]: the tag it starts with ("" when it starts *)
(* with none) and the characters that follow the tag, the closing tag left *)
(* out.  A character is a one-character string.  The vertices of a graph   *)
(* that is exported or imported carry the field radius.  Positions and     *)
(* radii are whole numbers below 10^6, which operator<< writes with all    *)
(* their digits and without a decimal point.                               *)
(***************************************************************************)
DEFAULT_VERTEX_RADIUS == 1

MAX_ALLOWED_VERTEX_RADIUS == 10000

DigitChars == <<"0", "1", "2", "3", "4", "5", "6", "7", "8", "9">>

IsDigit(c) == \E d \in DOMAIN DigitChars : DigitChars[d] = c

DigitOf(c) == (CHOOSE d \in DOMAIN DigitChars : DigitChars[d] = c) - 1

\* operator<< of an unsigned, a bool or a whole float: the decimal digits
RECURSIVE to_digits(_)
to_digits(n) ==
    IF n < 10 THEN <<DigitChars[n + 1]>>
    ELSE Append(to_digits(n \div 10), DigitChars[(n % 10) + 1])

\* the value of the digits text starts with, value being that of the digits
\* already read
RECURSIVE digits_value(_, _)
digits_value(text, value) ==
    IF text = <<>> \/ ~IsDigit(Head(text)) THEN value
    ELSE digits_value(Tail(text), 10 * value + DigitOf(Head(text)))

\* sscanf_s(line, "<tag>%u</tag>", &value), and the same with %f on a whole
\* number: the number of conversions made and the value read; the
\* conversion stops at the first character that is no digit, and fails when
\* the first one is none
sscanf_s(text) ==
    IF text = <<>> \/ ~IsDigit(Head(text)) THEN [count |-> 0, value |-> 0]
    ELSE [count |-> 1, value |-> digits_value(text, 0)]

\* Vector3f::to_compact_string, on one axis
to_compact_string(position) == to_digits(position)

\* DeformableSplineCurve::to_compact_string: one line per sample
curve_to_compact_string(curve) ==
    [i \in DOMAIN curve |-> [tag |-> "", text |-> to_compact_string(curve[i])]]

TagLine(tag) == [tag |-> tag, text |-> <<>>]

\* the lines written for one vertex
export_vertex(props) ==
    << TagLine("<vertex>"),
       [tag |-> "<pos>", text |-> to_compact_string(props.position)],
       [tag |-> "<radius>", text |-> to_digits(props.radius)],
       [tag |-> "<cycle>", text |-> to_digits(IF props.is_part_of_cycle THEN 1 ELSE 0)],
       TagLine("</vertex>") >>

RECURSIVE export_vertices(_, _)
export_vertices(m_vertices_left, output_file) ==
    IF m_vertices_left = <<>> THEN output_file
    ELSE export_vertices(Tail(m_vertices_left),
                         output_file \o export_vertex(Head(m_vertices_left)))

\* vertex_index_map: the place of v among the vertices written, from 0;
\* none when v was not written
vertex_index_map(g, v) ==
    {i - 1 : i \in {k \in DOMAIN g.m_vertices : g.m_vertices[k].id = v}}

\* the edges loop: the lines written, and whether every edge was written
RECURSIVE export_edges(_, _, _)
export_edges(g, m_edges_left, output_file) ==
    IF m_edges_left = <<>> THEN [file |-> output_file, ret |-> TRUE]
    ELSE LET props == Head(m_edges_left)
             source_index == vertex_index_map(g, props.source)
             target_index == vertex_index_map(g, props.target)
             opened == Append(output_file, TagLine("<edge>"))
         IN  IF source_index = {} THEN [file |-> opened, ret |-> FALSE]
             ELSE LET with_source ==
                          Append(opened, [tag  |-> "<source>",
                                          text |-> to_digits(CHOOSE i \in source_index : TRUE)])
                  IN  IF target_index = {} THEN [file |-> with_source, ret |-> FALSE]
                      ELSE export_edges(g, Tail(m_edges_left),
                               with_source
                               \o << [tag  |-> "<target>",
                                      text |-> to_digits(CHOOSE i \in target_index : TRUE)],
                                     [tag  |-> "<cycle>",
                                      text |-> to_digits(IF props.is_part_of_cycle THEN 1 ELSE 0)],
                                     TagLine("<curve>") >>
                               \o curve_to_compact_string(props.curve)
                               \o << TagLine("</curve>"), TagLine("</edge>") >>)

\* export_to_file(filename, scale) on a file that can be opened: the file
\* written and the value returned
export_to_file(g, scale) ==
    LET vertices_written ==
            export_vertices(g.m_vertices,
                            << [tag |-> "<scale>", text |-> to_digits(scale)],
                               TagLine("<vertices>") >>)
        edges_written ==
            export_edges(g, g.m_edges,
                         vertices_written \o << TagLine("</vertices>"), TagLine("<edges>") >>)
    IN  IF edges_written.ret
        THEN [g |-> g, ret |-> <<TRUE, Append(edges_written.file, TagLine("</edges>"))>>,
              err |-> "none"]
        ELSE [g |-> g, ret |-> <<FALSE, edges_written.file>>, err |-> "none"]

\* VertexProperties()
VertexProperties ==
    [position |-> 0, radius |-> 1, is_part_of_cycle |-> FALSE]

\* EdgeProperties()
EdgeProperties == [curve |-> <<>>, is_part_of_cycle |-> FALSE]

\* add_vertex(v_props), the radius kept with the vertex
add_vertex_props(g, properties) ==
    LET r == add_vertex(g, properties)
        n == Len(r.g.m_vertices)
    IN  [r EXCEPT !.g.m_vertices[n] =
                      [id               |-> r.ret,
                       position         |-> properties.position,
                       radius           |-> properties.radius,
                       is_part_of_cycle |-> properties.is_part_of_cycle]]

\* line == tag
Is(line, tag) == line.tag = tag /\ line.text = <<>>

\* the branch of the lines read while reading_vertices
import_vertex_line(st, line) ==
    IF Is(line, "<vertex>")
    THEN [st EXCEPT !.reading_vertex = TRUE, !.v_props = VertexProperties]
    ELSE IF Is(line, "</vertex>")
    THEN LET r == add_vertex_props(st.g, st.v_props)
         IN  [st EXCEPT !.reading_vertex = FALSE,
                        !.g = r.g,
                        !.vertices = Append(@, r.ret)]
    ELSE IF ~st.reading_vertex THEN st
    ELSE IF line.tag = "<pos>"
    THEN LET read == sscanf_s(line.text)
         IN  [st EXCEPT !.v_props.position = IF read.count = 1 THEN read.value ELSE 0]
    ELSE IF line.tag = "<radius>"
    THEN LET read == sscanf_s(line.text)
             radius == read.value
             \* the local radius after the test against the largest allowed
             \* one: nothing reads it
             radius_clamped == IF radius > MAX_ALLOWED_VERTEX_RADIUS THEN 1 ELSE radius
         IN  IF read.count = 1
             THEN [st EXCEPT !.v_props.radius = radius]
             ELSE [st EXCEPT !.v_props.radius = DEFAULT_VERTEX_RADIUS]
    ELSE IF line.tag = "<cycle>"
    THEN LET read == sscanf_s(line.text)
         IN  [st EXCEPT !.v_props.is_part_of_cycle =
                            IF read.count = 1 THEN read.value # 0 ELSE FALSE]
    ELSE st

\* the branch of the lines read while reading_edges, an edge with a bad
\* index ending the import
import_edge_line_aborting(st, line) ==
    IF Is(line, "<edge>")
    THEN [st EXCEPT !.reading_edge = TRUE,
                    !.e_props = EdgeProperties,
                    !.e_source_index = 0,
                    !.e_target_index = 0,
                    !.e_curve = <<>>]
    ELSE IF Is(line, "</edge>")
    THEN IF st.e_source_index < Len(st.vertices) /\ st.e_target_index < Len(st.vertices)
         THEN [st EXCEPT !.reading_edge = FALSE,
                         !.g = add_edge(st.g, st.vertices[st.e_source_index + 1],
                                        st.vertices[st.e_target_index + 1], st.e_props).g]
         ELSE [st EXCEPT !.reading_edge = FALSE, !.stop = TRUE]
    ELSE IF ~st.reading_edge THEN st
    ELSE IF Is(line, "<curve>") THEN [st EXCEPT !.reading_curve = TRUE]
    ELSE IF Is(line, "</curve>")
    THEN [st EXCEPT !.reading_curve = FALSE, !.e_props.curve = st.e_curve]
    ELSE IF st.reading_curve
    THEN LET read == sscanf_s(IF line.tag = "" THEN line.text ELSE <<>>)
         IN  IF read.count = 1 THEN [st EXCEPT !.e_curve = Append(@, read.value)] ELSE st
    ELSE IF line.tag = "<source>"
    THEN LET read == sscanf_s(line.text)
         IN  IF read.count = 1 THEN [st EXCEPT !.e_source_index = read.value] ELSE st
    ELSE IF line.tag = "<target>"
    THEN LET read == sscanf_s(line.text)
         IN  IF read.count = 1 THEN [st EXCEPT !.e_target_index = read.value] ELSE st
    ELSE IF line.tag = "<cycle>"
    THEN LET read == sscanf_s(line.text)
         IN  IF read.count = 1
             THEN [st EXCEPT !.e_props.is_part_of_cycle = read.value # 0] ELSE st
    ELSE st

\* the branch of the lines read while reading_edges
import_edge_line(st, line) ==
    IF Is(line, "<edge>")
    THEN [st EXCEPT !.reading_edge = TRUE,
                    !.e_props = EdgeProperties,
                    !.e_source_index = 0,
                    !.e_target_index = 0,
                    !.e_curve = <<>>]
    ELSE IF Is(line, "</edge>")
    THEN IF st.e_source_index < Len(st.vertices) /\ st.e_target_index < Len(st.vertices)
         THEN [st EXCEPT !.reading_edge = FALSE,
                         !.g = add_edge(st.g, st.vertices[st.e_source_index + 1],
                                        st.vertices[st.e_target_index + 1], st.e_props).g]
         ELSE [st EXCEPT !.reading_edge = FALSE]
    ELSE IF ~st.reading_edge THEN st
    ELSE IF Is(line, "<curve>") THEN [st EXCEPT !.reading_curve = TRUE]
    ELSE IF Is(line, "</curve>")
    THEN [st EXCEPT !.reading_curve = FALSE, !.e_props.curve = st.e_curve]
    ELSE IF st.reading_curve
    THEN LET read == sscanf_s(IF line.tag = "" THEN line.text ELSE <<>>)
         IN  IF read.count = 1 THEN [st EXCEPT !.e_curve = Append(@, read.value)] ELSE st
    ELSE IF line.tag = "<source>"
    THEN LET read == sscanf_s(line.text)
         IN  IF read.count = 1 THEN [st EXCEPT !.e_source_index = read.value] ELSE st
    ELSE IF line.tag = "<target>"
    THEN LET read == sscanf_s(line.text)
         IN  IF read.count = 1 THEN [st EXCEPT !.e_target_index = read.value] ELSE st
    ELSE IF line.tag = "<cycle>"
    THEN LET read == sscanf_s(line.text)
         IN  IF read.count = 1
             THEN [st EXCEPT !.e_props.is_part_of_cycle = read.value # 0] ELSE st
    ELSE st

\* the body of the loop over the lines
import_line(st, line) ==
    IF line.tag = "<scale>"
    THEN LET read == sscanf_s(line.text)
         IN  IF read.count = 1 THEN [st EXCEPT !.scale = read.value] ELSE st
    ELSE IF Is(line, "<vertices>") THEN [st EXCEPT !.reading_vertices = TRUE]
    ELSE IF Is(line, "</vertices>") THEN [st EXCEPT !.reading_vertices = FALSE]
    ELSE IF st.reading_vertices THEN import_vertex_line(st, line)
    ELSE IF Is(line, "<edges>")
    THEN [st EXCEPT !.reading_edges = TRUE, !.stop = (st.vertices = <<>>)]
    ELSE IF Is(line, "</edges>") THEN [st EXCEPT !.reading_edges = FALSE]
    ELSE IF st.reading_edges THEN import_edge_line(st, line)
    ELSE st

\* the loop over the lines, left at the end of the file or by break
RECURSIVE import_lines(_, _)
import_lines(st, lines) ==
    IF lines = <<>> \/ st.stop THEN st
    ELSE import_lines(import_line(st, Head(lines)), Tail(lines))

\* import_from_file(filename, graph, scale) on a file that can be opened
\* and a graph that is not null; the value returned is the scale read
import_from_file(file, graph) ==
    LET st == import_lines([g                |-> graph,
                            scale            |-> 1,
                            vertices         |-> <<>>,
                            reading_vertices |-> FALSE,
                            reading_edges    |-> FALSE,
                            reading_vertex   |-> FALSE,
                            reading_edge     |-> FALSE,
                            reading_curve    |-> FALSE,
                            v_props          |-> VertexProperties,
                            e_props          |-> EdgeProperties,
                            e_source_index   |-> 0,
                            e_target_index   |-> 0,
                            e_curve          |-> <<>>,
                            stop             |-> FALSE],
                           file)
    IN  [g |-> st.g, ret |-> st.scale, err |-> "none"]

(***************************************************************************)
(* update_vertex_position.  CurveDeformer::deform_curve and                *)
(* pseudo_elastic_deform either move the end of the curve to the new       *)
(* position or fail; which of the visits of the call fails, if any, is an  *)
(* input of the model: failure is the number of the visit, in-edges first, *)
(* at which both fail (0 when none does), and torn tells whether the curve *)
(* they failed on has its end moved all the same.                          *)
(***************************************************************************)
\* the curve with the end that lies at the vertex moved to new_position
deform_curve(curve, front, new_position) ==
    IF curve = <<>> THEN curve
    ELSE IF front THEN set_front(curve, new_position)
    ELSE set_back(curve, new_position)

\* internal_graph_[e].curve = curve
set_edge_curve(g, e, curve) ==
    [g EXCEPT !.m_edges = [j \in DOMAIN g.m_edges |->
        IF g.m_edges[j].id = e THEN [g.m_edges[j] EXCEPT !.curve = curve]
        ELSE g.m_edges[j]]]

\* the edges that update_vertex_position visits, in order: the in-edges,
\* deformed at their back, then the out-edges, deformed at their front
visits(g, vertex) ==
    [i \in DOMAIN boost_in_edges(g, vertex) |->
        [edge |-> boost_in_edges(g, vertex)[i].id, front |-> FALSE]]
    \o [i \in DOMAIN boost_out_edges(g, vertex) |->
        [edge |-> boost_out_edges(g, vertex)[i].id, front |-> TRUE]]

\* the two for loops, from the visit number i on
RECURSIVE deform_each(_, _, _, _, _, _)
deform_each(g, todo, i, new_position, failure, torn) ==
    IF i > Len(todo) THEN [g |-> g, ret |-> TRUE, err |-> "none"]
    ELSE
    LET deformed == set_edge_curve(g, todo[i].edge,
                                   deform_curve(get_edge(g, todo[i].edge).curve,
                                                todo[i].front, new_position))
    IN  IF i = failure
        THEN [g |-> IF torn THEN deformed ELSE g, ret |-> FALSE, err |-> "none"]
        ELSE deform_each(deformed, todo, i + 1, new_position, failure, torn)

\* update_vertex_position with the graph put back as it was when a
\* deformation fails
update_vertex_position_rolling_back(g, vertex, new_position, failure, torn) ==
    IF vertex = null_vertex THEN [g |-> g, ret |-> FALSE, err |-> "none"]
    ELSE LET r == deform_each(set_vertex_position(g, vertex, new_position),
                              visits(g, vertex), 1, new_position, failure, torn)
         IN  IF r.ret THEN r ELSE [g |-> g, ret |-> FALSE, err |-> "none"]

\* update_vertex_position(vertex, new_position, maintain_shape_around_tip)
update_vertex_position(g, vertex, new_position, failure, torn) ==
    IF vertex = null_vertex THEN [g |-> g, ret |-> FALSE, err |-> "none"]
    ELSE deform_each(set_vertex_position(g, vertex, new_position),
                     visits(g, vertex), 1, new_position, failure, torn)

(***************************************************************************)
(* shortest_path between two edges.                                        *)
(***************************************************************************)
\* the four calls of shortest_path(from, to), in the order of the list; the
\* marks are those that the last call made leaves, which is the first that
\* throws when one does
RECURSIVE paths_between(_, _, _)
paths_between(g, ends, paths) ==
    IF ends = <<>> THEN paths
    ELSE LET path == shortest_path(g, Head(ends)[1], Head(ends)[2])
         IN  IF path.err # "none" THEN Append(paths, path)
             ELSE paths_between(g, Tail(ends), Append(paths, path))

\* shortest_path(source_edge, target_edge)
shortest_path_edges(g, source_edge, target_edge) ==
    LET paths == paths_between(g,
                     <<<<source_edge.m_source, target_edge.m_source>>,
                       <<source_edge.m_source, target_edge.m_target>>,
                       <<source_edge.m_target, target_edge.m_source>>,
                       <<source_edge.m_target, target_edge.m_target>>>>,
                     <<>>)
        made == paths[Len(paths)]
        steps == [loop   |-> CHOOSE n \in {paths[i].steps.loop : i \in DOMAIN paths} :
                                 \A i \in DOMAIN paths : paths[i].steps.loop <= n,
                  walk   |-> CHOOSE n \in {paths[i].steps.walk : i \in DOMAIN paths} :
                                 \A i \in DOMAIN paths : paths[i].steps.walk <= n,
                  rooted |-> \A i \in DOMAIN paths : paths[i].steps.rooted]
    IN  IF made.err # "none"
        THEN [g |-> g, ret |-> <<>>, err |-> made.err, marks |-> made.marks, steps |-> steps]
        ELSE [g |-> g, ret |-> paths[shortest_of(paths)].ret, err |-> "none",
              marks |-> made.marks, steps |-> steps]

(***************************************************************************)
(* The state machine.                                                      *)
(***************************************************************************)
Graph == [m_vertices |-> m_vertices, m_edges |-> m_edges,
          edge_spline_count_ |-> edge_spline_count_]

\* the graph as a call finds it; used_v and used_e are the addresses in use
This == [m_vertices |-> m_vertices, m_edges |-> m_edges,
         edge_spline_count_ |-> edge_spline_count_,
         used_v |-> Ids(m_vertices), used_e |-> Ids(m_edges)]

SampleTotal(g) == SumSeq([i \in DOMAIN g.m_edges |-> Len(g.m_edges[i].curve)])

Fits(g) ==
    /\ Len(g.m_vertices) <= MaxVertices
    /\ Len(g.m_edges) <= MaxEdges
    /\ \A x \in Range(g.m_edges) : Len(x.curve) <= MaxCurveSize
    /\ \A x \in Range(g.m_vertices) : x.position \in 0..(2 * MaxPos)
    /\ g.edge_spline_count_ - SampleTotal(g) \in (-MaxDrift)..MaxDrift

\* the same graph with the vertices and the edges named by their place in
\* the lists
Canon(g) ==
    LET place(v) == CHOOSE i \in DOMAIN g.m_vertices : g.m_vertices[i].id = v
    IN  [m_vertices |-> [i \in DOMAIN g.m_vertices |-> [g.m_vertices[i] EXCEPT !.id = i]],
         m_edges |-> [j \in DOMAIN g.m_edges |->
                        [g.m_edges[j] EXCEPT !.id = j,
                                             !.source = place(@),
                                             !.target = place(@)]],
         edge_spline_count_ |-> g.edge_spline_count_]

(***************************************************************************)
(* copy(): a new SkeletalGraph, whose counter starts at 0, is assigned the *)
(* internal graph; the copies of the vertices and edges have descriptors   *)
(* of their own, in the order of the originals.                            *)
(***************************************************************************)
\* copy() with the counter copied as well
copy_with_counter(g) ==
    [g |-> g, ret |-> Canon(g), err |-> "none"]

\* copy()
copy(g) ==
    [g |-> g, ret |-> [Canon(g) EXCEPT !.edge_spline_count_ = 0], err |-> "none"]

NoGraph == [m_vertices |-> <<>>, m_edges |-> <<>>, edge_spline_count_ |-> 0]

NoCall == [op |-> "none", args |-> <<>>, ret |-> <<>>, err |-> "none",
           after |-> [op |-> "none"]]

SetGraph(g) ==
    /\ m_vertices' = g.m_vertices
    /\ m_edges' = g.m_edges
    /\ edge_spline_count_' = g.edge_spline_count_

\* a call of op with args, whose outcome is r: unobserved, or observed
Step(op, args, r) ==
    /\ last.op = "none"
    /\ \/ /\ Fits(r.g)
          /\ SetGraph(Canon(r.g))
          /\ UNCHANGED <<pre, last>>
       \/ /\ SetGraph(r.g)
          /\ pre' = Graph
          /\ last' = [op |-> op, args |-> args, ret |-> r.ret, err |-> r.err,
                      after |-> [op |-> "none"]]

LiveVertices == Ids(m_vertices)

LiveEdges == Ids(m_edges)

Init ==
    /\ m_vertices = <<>>
    /\ m_edges = <<>>
    /\ edge_spline_count_ = 0
    /\ pre = NoGraph
    /\ last = NoCall

Call_add_vertex ==
    \E properties \in VertexInputs :
        Step("add_vertex", <<properties>>, add_vertex(This, properties))

Call_remove_vertex ==
    \E v \in LiveVertices \cup {null_vertex} :
        Step("remove_vertex", <<v>>, remove_vertex(This, v))

Call_clear_vertex ==
    \E v \in LiveVertices :
        Step("clear_vertex", <<v>>, clear_vertex(This, v))

\* the curve handed over joins the two vertices (I1 is the caller's to keep)
Call_add_edge ==
    \E from \in LiveVertices \cup {null_vertex}, to \in LiveVertices \cup {null_vertex} :
        \E curve \in Curves(IF from = null_vertex THEN 0 ELSE get_vertex(This, from).position,
                            IF to = null_vertex THEN 0 ELSE get_vertex(This, to).position),
           c \in BOOLEAN :
            Step("add_edge", <<from, to, curve, c>>,
                 add_edge(This, from, to, [curve |-> curve, is_part_of_cycle |-> c]))

\* add_edge(from, to) reads the positions of both vertices before any check:
\* it is called with live vertices only
Call_add_edge_from_to ==
    \E from \in LiveVertices, to \in LiveVertices :
        Step("add_edge_from_to", <<from, to>>, add_edge_from_to(This, from, to))

Call_remove_edge ==
    \E e \in LiveEdges \cup {null_edge} :
        Step("remove_edge", <<e>>, remove_edge(This, e))

Call_split_edge_at ==
    \E e \in LiveEdges, i \in 0..MaxCurveSize, p \in SplitPositions :
        Step("split_edge_at", <<e, i, p>>, split_edge_at(This, e, i, p))

\* the cut position lies off the two samples around it, so that both
\* directions are defined
Call_cut_edge_at ==
    \E e \in LiveEdges, i \in 0..MaxCurveSize, p \in CutPositions :
        /\ i < Len(get_edge(This, e).curve) - 1 =>
               /\ get_edge(This, e).curve[i + 1] # p
               /\ get_edge(This, e).curve[i + 2] # p
        /\ Step("cut_edge_at", <<e, i, p>>, cut_edge_at(This, e, i, p))

\* the midpoint of the two end vertices is a point of the grid
MidpointOnGrid(g, a, b, option) ==
    option = MIDPOINT => (get_vertex(g, a).position + get_vertex(g, b).position) % 2 = 0

Call_collapse_edge ==
    \E e \in LiveEdges, option \in COLLAPSE_OPTION :
        /\ MidpointOnGrid(This, boost_source(This, e), boost_target(This, e), option)
        /\ Step("collapse_edge", <<e, option>>,
                collapse_edge(This, descriptor(get_edge(This, e)), option))

Call_merge_vertices ==
    \E a \in LiveVertices, b \in LiveVertices, option \in COLLAPSE_OPTION :
        /\ MidpointOnGrid(This, a, b, option)
        /\ Step("merge_vertices", <<a, b, option>>, merge_vertices(This, a, b, option))

Call_remove_degree_2_vertex_and_merge_edges ==
    \E v \in LiveVertices :
        Step("remove_degree_2_vertex_and_merge_edges", <<v>>,
             remove_degree_2_vertex_and_merge_edges(This, v))

Call_move_and_scale ==
    \E displacement \in {0, 2}, scale_factor \in {1, 2} :
        Step("move_and_scale", <<displacement, scale_factor>>,
             move_and_scale(This, displacement, scale_factor))

\* the second call of the split-then-merge scenario: right after an observed
\* split_edge_at, the inserted vertex is removed again; pre stays the graph
\* as the split found it
Call_merge_after_split ==
    /\ last.op = "split_edge_at"
    /\ last.err = "none"
    /\ LET r == remove_degree_2_vertex_and_merge_edges(This, last.ret[1])
       IN  /\ SetGraph(r.g)
           /\ pre' = pre
           /\ last' = [op |-> "remove_degree_2_vertex_and_merge_edges",
                       args |-> <<last.ret[1]>>, ret |-> r.ret, err |-> r.err,
                       after |-> last]

Next ==
    \/ Call_add_vertex
    \/ Call_remove_vertex
    \/ Call_clear_vertex
    \/ Call_add_edge
    \/ Call_add_edge_from_to
    \/ Call_remove_edge
    \/ Call_split_edge_at
    \/ Call_cut_edge_at
    \/ Call_collapse_edge
    \/ Call_merge_vertices
    \/ Call_remove_degree_2_vertex_and_merge_edges
    \/ Call_merge_after_split

Spec == Init /\ [][Next]_vars

(***************************************************************************)
(* The rewrites called on any graph of a bounded family: up to             *)
(* MaxGraphVertices vertices, vertex i at position 2 * (i - 1), and up to  *)
(* MaxGraphEdges edges between any two of them, each with a curve of       *)
(* Curves.  Every such graph is built by add_vertex and add_edge.          *)
(***************************************************************************)
MaxGraphVertices == 3

MaxGraphEdges == 3

GraphVertices(n) ==
    [i \in 1..n |-> [id |-> i, position |-> 2 * (i - 1), is_part_of_cycle |-> FALSE]]

EdgeChoices(n) ==
    {[source |-> a, target |-> b, curve |-> c] :
        a \in 1..n, b \in 1..n, c \in Curves(0, 0)}

\* the curve c laid between the positions a and b
Between(c, a, b) == [k \in DOMAIN c |-> IF k = 1 THEN a ELSE IF k = Len(c) THEN b ELSE c[k]]

GraphEdges(n, choice) ==
    [j \in DOMAIN choice |->
        [id               |-> j,
         source           |-> choice[j].source,
         target           |-> choice[j].target,
         curve            |-> Between(choice[j].curve,
                                      2 * (choice[j].source - 1),
                                      2 * (choice[j].target - 1)),
         is_part_of_cycle |-> FALSE]]

InitGraphs ==
    /\ \E n \in 1..MaxGraphVertices, k \in 0..MaxGraphEdges :
           \E choice \in [1..k -> EdgeChoices(n)] :
               /\ m_vertices = GraphVertices(n)
               /\ m_edges = GraphEdges(n, choice)
               /\ edge_spline_count_ = SampleTotal([m_edges |-> GraphEdges(n, choice)])
    /\ pre = NoGraph
    /\ last = NoCall

NextRewrite ==
    \/ Call_collapse_edge
    \/ Call_merge_vertices
    \/ Call_remove_degree_2_vertex_and_merge_edges

SpecRewrite == InitGraphs /\ [][NextRewrite]_vars

(***************************************************************************)
(* The graph algorithms are run on every graph of up to MaxQueryVertices   *)
(* vertices and MaxQueryEdges edges, parallel edges and self-loops         *)
(* included, and on two triangles that share a vertex, with the edges      *)
(* turned every way.  The marks is_part_of_cycle left by earlier calls are *)
(* set on the vertices at the odd places and on the edges at the even      *)
(* ones.                                                                   *)
(***************************************************************************)
MaxQueryVertices == 4

MaxQueryEdges == 4

QueryVertices(n) ==
    [i \in 1..n |-> [id |-> i, position |-> 2 * (i - 1), is_part_of_cycle |-> i % 2 = 1]]

\* the edges whose ends are given, each with the curve of its two ends
QueryEdges(ends) ==
    [j \in DOMAIN ends |->
        [id               |-> j,
         source           |-> ends[j][1],
         target           |-> ends[j][2],
         curve            |-> <<2 * (ends[j][1] - 1), 2 * (ends[j][2] - 1)>>,
         is_part_of_cycle |-> j % 2 = 0]]

\* two triangles that share the vertex 1
Bowtie == <<<<1, 2>>, <<2, 3>>, <<3, 1>>, <<1, 4>>, <<4, 5>>, <<5, 1>>>>

BowtieVertices == Cardinality(UNION {{Bowtie[j][1], Bowtie[j][2]} : j \in DOMAIN Bowtie})

Turned(ends, turn) ==
    [j \in DOMAIN ends |-> IF turn[j] THEN <<ends[j][2], ends[j][1]>> ELSE ends[j]]

InitQuery ==
    /\ \/ \E n \in 0..MaxQueryVertices, k \in 0..MaxQueryEdges :
              \E ends \in [1..k -> (1..n) \X (1..n)] :
                  /\ m_vertices = QueryVertices(n)
                  /\ m_edges = QueryEdges(ends)
                  /\ edge_spline_count_ = 2 * k
       \/ \E turn \in [DOMAIN Bowtie -> BOOLEAN] :
              /\ m_vertices = QueryVertices(BowtieVertices)
              /\ m_edges = QueryEdges(Turned(Bowtie, turn))
              /\ edge_spline_count_ = 2 * Len(Bowtie)
    /\ pre = NoGraph
    /\ last = NoCall

\* a call of op with args, whose outcome is r, observed
Observe(op, args, r) ==
    /\ last.op = "none"
    /\ SetGraph(r.g)
    /\ pre' = Graph
    /\ last' = [op |-> op, args |-> args, ret |-> r.ret, err |-> r.err,
                after |-> [op |-> "none"]]

\* shortest_path(from, to), to being the first vertex of the graph: the
\* graphs tried are the same whatever the names of their vertices
Call_shortest_path ==
    \E from \in LiveVertices :
        LET to == m_vertices[1].id
        IN  Observe("shortest_path", <<from, to>>, shortest_path(Graph, from, to))

Call_count_connected_components ==
    Observe("count_connected_components", <<>>, count_connected_components(Graph))

Call_find_cycles ==
    Observe("find_cycles", <<>>, find_cycles(Graph))

NextQuery ==
    \/ Call_shortest_path
    \/ Call_count_connected_components
    \/ Call_find_cycles

SpecQuery == InitQuery /\ [][NextQuery]_vars

(***************************************************************************)
(* Graphs built from the empty one by add_vertex and add_edge(from, to)    *)
(* alone, then counted or searched for cycles: the n-th vertex is put at   *)
(* 2 * (n - 1), unmarked.                                                  *)
(***************************************************************************)
MaxBuildVertices == 3

MaxBuildEdges == 3

Build_add_vertex ==
    /\ last.op = "none"
    /\ Len(m_vertices) < MaxBuildVertices
    /\ SetGraph(add_vertex(This, [position |-> 2 * Len(m_vertices),
                                  is_part_of_cycle |-> FALSE]).g)
    /\ UNCHANGED <<pre, last>>

Build_add_edge ==
    /\ last.op = "none"
    /\ Len(m_edges) < MaxBuildEdges
    /\ \E from \in LiveVertices, to \in LiveVertices :
           SetGraph(add_edge_from_to(This, from, to).g)
    /\ UNCHANGED <<pre, last>>

NextBuild ==
    \/ Build_add_vertex
    \/ Build_add_edge
    \/ Call_count_connected_components
    \/ Call_find_cycles

SpecBuild == Init /\ [][NextBuild]_vars

(***************************************************************************)
(* The bulk operations are run on every graph of up to MaxBulkVertices     *)
(* vertices and MaxBulkEdges straight edges; the vertices are 16 apart, so *)
(* that the midpoints of four collapses in a row stay whole.               *)
(***************************************************************************)
MaxBulkVertices == 4

MaxBulkEdges == 3

BulkVertices(n) ==
    [i \in 1..n |-> [id |-> i, position |-> 16 * (i - 1), is_part_of_cycle |-> FALSE]]

BulkEdges(ends) ==
    [j \in DOMAIN ends |->
        [id               |-> j,
         source           |-> ends[j][1],
         target           |-> ends[j][2],
         curve            |-> <<16 * (ends[j][1] - 1), 16 * (ends[j][2] - 1)>>,
         is_part_of_cycle |-> FALSE]]

\* the lengths handed to collapse_edges_shorter_than: between one and two
\* gaps
MinLengths == {24}

InitBulk ==
    /\ \E n \in 0..MaxBulkVertices, k \in 0..MaxBulkEdges :
           \E ends \in [1..k -> (1..n) \X (1..n)] :
               /\ m_vertices = BulkVertices(n)
               /\ m_edges = BulkEdges(ends)
               /\ edge_spline_count_ = 2 * k
    /\ pre = NoGraph
    /\ last = NoCall

Call_collapse_edges_shorter_than ==
    \E min_length \in MinLengths :
        Observe("collapse_edges_shorter_than", <<min_length>>,
                collapse_edges_shorter_than(This, min_length))

Call_remove_vertices_of_degree ==
    \E k \in 0..MaxBulkEdges :
        Observe("remove_vertices_of_degree", <<k>>, remove_vertices_of_degree(This, k))

NextBulk ==
    \/ Call_collapse_edges_shorter_than
    \/ Call_remove_vertices_of_degree

SpecBulk == InitBulk /\ [][NextBulk]_vars

(***************************************************************************)
(* split_path is run on every graph of up to MaxSplitVertices vertices and *)
(* MaxSplitEdges edges, and on the chain of four edges over five vertices, *)
(* with the edges turned every way.                                        *)
(***************************************************************************)
MaxSplitVertices == 4

MaxSplitEdges == 3

\* a-b, b-x, x-c, c-d
Chain == <<<<1, 2>>, <<2, 3>>, <<3, 4>>, <<4, 5>>>>

ChainVertices == Cardinality(UNION {{Chain[j][1], Chain[j][2]} : j \in DOMAIN Chain})

InitSplit ==
    /\ \/ \E n \in 0..MaxSplitVertices, k \in 0..MaxSplitEdges :
              \E ends \in [1..k -> (1..n) \X (1..n)] :
                  /\ m_vertices = QueryVertices(n)
                  /\ m_edges = QueryEdges(ends)
                  /\ edge_spline_count_ = 2 * k
       \/ \E turn \in [DOMAIN Chain -> BOOLEAN] :
              /\ m_vertices = QueryVertices(ChainVertices)
              /\ m_edges = QueryEdges(Turned(Chain, turn))
              /\ edge_spline_count_ = 2 * Len(Chain)
    /\ pre = NoGraph
    /\ last = NoCall

Call_split_path ==
    \E source_edge \in LiveEdges, target_edge \in LiveEdges, stale \in BOOLEAN :
        Observe("split_path", <<source_edge, target_edge>>,
                split_path(This, descriptor(get_edge(This, source_edge)),
                           descriptor(get_edge(This, target_edge)), stale))

NextSplit ==
    \/ Call_split_path

SpecSplit == InitSplit /\ [][NextSplit]_vars

\* the most pairs handed to split_edge_along_curve
MaxPairs == 2

\* the vertices joined to an end of the edge x by an edge
Touching(g, x) == Range(neighbours(g, x.source)) \cup Range(neighbours(g, x.target))

\* the lists of pairs handed over: two different vertices, each joined to
\* an end of the edge to split, so that the start and the end of every new
\* curve are found
PairLists(g, x) ==
    UNION {[1..n -> {p \in Touching(g, x) \X Touching(g, x) : p[1] # p[2]}] : n \in 1..MaxPairs}

Call_split_edge_along_curve ==
    \E e \in LiveEdges :
        \E pairs \in PairLists(This, get_edge(This, e)) :
            Observe("split_edge_along_curve", <<e, pairs>>,
                    split_edge_along_curve(This, descriptor(get_edge(This, e)), pairs))

\* the descriptor of an edge that is no more: no edge joins its two ends
Call_split_edge_along_curve_gone ==
    \E a \in LiveVertices, b \in LiveVertices :
        /\ ~boost_edge(This, a, b).second
        /\ \E s \in LiveVertices, t \in LiveVertices :
               Observe("split_edge_along_curve", <<FreshId(LiveEdges), <<<<s, t>>>>>>,
                       split_edge_along_curve(
                           This, [id |-> FreshId(LiveEdges), m_source |-> a, m_target |-> b],
                           <<<<s, t>>>>))

NextAlong ==
    \/ Call_split_edge_along_curve
    \/ Call_split_edge_along_curve_gone

SpecAlong == InitSplit /\ [][NextAlong]_vars

(***************************************************************************)
(* The files: graphs built with add_vertex and add_edge(from, to, props),  *)
(* marked by find_cycles or not, are exported, and the file written is     *)
(* imported into an empty graph; files written by hand, whose radii may be *)
(* too large or unreadable and whose edges may name vertices that the file *)
(* does not hold, are imported into a graph.                               *)
(***************************************************************************)
MaxFileVertices == 2

MaxFileEdges == 3

\* the blocks of each kind in a file written by hand
MaxBlocks == 2

\* the edges of a graph into which a file written by hand is imported
MaxTargetEdges == 1

FileVertices(n) ==
    [i \in 1..n |-> [id               |-> i,
                     position         |-> 2 * (i - 1),
                     radius           |-> 2 * i + 1,
                     is_part_of_cycle |-> FALSE]]

FileEdges(ends) ==
    [j \in DOMAIN ends |->
        [id               |-> j,
         source           |-> ends[j][1],
         target           |-> ends[j][2],
         curve            |-> <<2 * (ends[j][1] - 1), 2 * (ends[j][2] - 1)>>,
         is_part_of_cycle |-> FALSE]]

InitFile ==
    /\ \E n \in 0..MaxFileVertices, k \in 0..MaxFileEdges :
           \E ends \in [1..k -> (1..n) \X (1..n)] :
               /\ m_vertices = FileVertices(n)
               /\ m_edges = FileEdges(ends)
               /\ edge_spline_count_ = 2 * k
    /\ pre = NoGraph
    /\ last = NoCall

\* the radius fields of the files written by hand: a small radius, the
\* largest allowed one, one above it, and one that is no number
RadiusTexts ==
    {to_digits(3), to_digits(MAX_ALLOWED_VERTEX_RADIUS),
     to_digits(MAX_ALLOWED_VERTEX_RADIUS + 1), <<"x">>}

RECURSIVE Lines(_)
Lines(blocks) == IF blocks = <<>> THEN <<>> ELSE Head(blocks) \o Lines(Tail(blocks))

\* the file of the given vertex blocks (the texts of their fields) and edge
\* blocks (their indices), in the layout that export_to_file writes
FileText(vertex_blocks, edge_blocks) ==
    << [tag |-> "<scale>", text |-> to_digits(1)], TagLine("<vertices>") >>
    \o Lines([i \in DOMAIN vertex_blocks |->
                << TagLine("<vertex>"),
                   [tag |-> "<pos>", text |-> vertex_blocks[i].pos],
                   [tag |-> "<radius>", text |-> vertex_blocks[i].radius],
                   [tag |-> "<cycle>", text |-> vertex_blocks[i].cycle],
                   TagLine("</vertex>") >>])
    \o << TagLine("</vertices>"), TagLine("<edges>") >>
    \o Lines([j \in DOMAIN edge_blocks |->
                << TagLine("<edge>"),
                   [tag |-> "<source>", text |-> to_digits(edge_blocks[j].source)],
                   [tag |-> "<target>", text |-> to_digits(edge_blocks[j].target)],
                   [tag |-> "<cycle>", text |-> to_digits(0)],
                   TagLine("<curve>"),
                   [tag |-> "", text |-> to_digits(4)],
                   [tag |-> "", text |-> to_digits(6)],
                   TagLine("</curve>"),
                   TagLine("</edge>") >>])
    \o << TagLine("</edges>") >>

\* the vertex blocks tried: the cycle field of the first reads 1, that of
\* the second is no number, and so is the position of the second
VertexBlocks(radii) ==
    [i \in DOMAIN radii |->
        [pos    |-> IF i = 1 THEN to_digits(4) ELSE <<"x">>,
         radius |-> radii[i],
         cycle  |-> IF i = 1 THEN to_digits(1) ELSE <<"x">>]]

EdgeBlocks(ends) ==
    [j \in DOMAIN ends |-> [source |-> ends[j][1], target |-> ends[j][2]]]

\* a call of find_cycles that returns, unobserved
Step_find_cycles ==
    /\ last.op = "none"
    /\ find_cycles(Graph).err = "none"
    /\ SetGraph(find_cycles(Graph).g)
    /\ UNCHANGED <<pre, last>>

Call_export_to_file ==
    Observe("export_to_file", <<1>>, export_to_file(Graph, 1))

\* the file that the call before wrote, imported into an empty graph
Call_import_exported ==
    /\ last.op = "export_to_file"
    /\ last.after.op = "none"
    /\ last.ret[1]
    /\ LET r == import_from_file(last.ret[2],
                                 [m_vertices |-> <<>>, m_edges |-> <<>>,
                                  edge_spline_count_ |-> 0,
                                  used_v |-> {}, used_e |-> {}])
       IN  /\ SetGraph(r.g)
           /\ last' = [op |-> "import_from_file", args |-> <<last.ret[2]>>,
                       ret |-> r.ret, err |-> r.err, after |-> last]
    /\ UNCHANGED pre

\* a file written by hand, imported into the graph
Call_import_from_file ==
    /\ Len(m_edges) <= MaxTargetEdges
    /\ \E n \in 0..MaxBlocks, k \in 0..MaxBlocks :
           \E radii \in [1..n -> RadiusTexts], ends \in [1..k -> (0..MaxBlocks) \X (0..MaxBlocks)] :
               LET vertex_blocks == VertexBlocks(radii)
                   edge_blocks == EdgeBlocks(ends)
                   file == FileText(vertex_blocks, edge_blocks)
               IN  Observe("import_from_file", <<file, vertex_blocks, edge_blocks>>,
                           import_from_file(file, This))

NextFile ==
    \/ Step_find_cycles
    \/ Call_export_to_file
    \/ Call_import_exported
    \/ Call_import_from_file

SpecFile == InitFile /\ [][NextFile]_vars



(***************************************************************************)
(* update_vertex_position is run on every graph of up to MaxMoveVertices   *)
(* vertices and MaxMoveEdges edges, on each vertex and on the null one,    *)
(* with every visit failing or none.                                       *)
(***************************************************************************)
MaxMoveVertices == 3

MaxMoveEdges == 3

\* the positions that vertices are moved to
MovePositions == {7}

InitMove ==
    /\ \E n \in 0..MaxMoveVertices, k \in 0..MaxMoveEdges :
           \E ends \in [1..k -> (1..n) \X (1..n)] :
               /\ m_vertices = QueryVertices(n)
               /\ m_edges = QueryEdges(ends)
               /\ edge_spline_count_ = 2 * k
    /\ pre = NoGraph
    /\ last = NoCall

Call_update_vertex_position ==
    \E vertex \in LiveVertices \cup {null_vertex}, new_position \in MovePositions,
       failure \in 0..(2 * MaxMoveEdges), torn \in BOOLEAN :
        /\ vertex # null_vertex => failure <= Len(visits(Graph, vertex))
        /\ vertex = null_vertex => failure = 0
        /\ failure = 0 => ~torn
        /\ Observe("update_vertex_position", <<vertex, new_position, failure>>,
                   update_vertex_position(Graph, vertex, new_position, failure, torn))

NextMove ==
    \/ Call_update_vertex_position

SpecMove == InitMove /\ [][NextMove]_vars


(***************************************************************************)
(* The graph algorithms, with the transient marks that they leave in the   *)
(* vertices and the numbers of iterations of their loops, are run on the   *)
(* graphs that split_path is run on.                                       *)
(***************************************************************************)
\* a call of op with args, whose outcome is r, observed with the marks that
\* it leaves and the iterations that it made
ObserveMarks(op, args, r) ==
    /\ last.op = "none"
    /\ SetGraph(r.g)
    /\ pre' = Graph
    /\ last' = [op |-> op, args |-> args, ret |-> r.ret, err |-> r.err,
                after |-> [op |-> "none"], marks |-> r.marks, steps |-> r.steps]

Marks_shortest_path ==
    \E from \in LiveVertices, to \in LiveVertices :
        ObserveMarks("shortest_path", <<from, to>>, shortest_path(Graph, from, to))

Marks_shortest_path_edges ==
    \E source_edge \in LiveEdges, target_edge \in LiveEdges :
        ObserveMarks("shortest_path_edges", <<source_edge, target_edge>>,
                     shortest_path_edges(Graph, descriptor(get_edge(Graph, source_edge)),
                                         descriptor(get_edge(Graph, target_edge))))

Marks_count_connected_components ==
    ObserveMarks("count_connected_components", <<>>, count_connected_components(Graph))

Marks_find_cycles ==
    ObserveMarks("find_cycles", <<>>, find_cycles(Graph))

NextMarks ==
    \/ Marks_shortest_path
    \/ Marks_shortest_path_edges
    \/ Marks_count_connected_components
    \/ Marks_find_cycles

SpecMarks == InitSplit /\ [][NextMarks]_vars


(***************************************************************************)
(* copy() called on the graphs of the bounded family, and on what          *)
(* remove_edge leaves of them.                                             *)
(***************************************************************************)
Call_copy ==
    Observe("copy", <<>>, copy(Graph))

NextCopy ==
    \/ Call_remove_edge
    \/ Call_copy

SpecCopy == InitGraphs /\ [][NextCopy]_vars


(***************************************************************************)
(* remove_vertices_of_degree_2_and_merge_edges is called with every list   *)
(* of up to MaxChecked vertices, repeated ones included, on the graphs     *)
(* that split_path is run on.                                              *)
(***************************************************************************)
MaxChecked == 2

VerticesToCheck == UNION {[1..n -> LiveVertices] : n \in 0..MaxChecked}

Call_remove_vertices_of_degree_2_and_merge_edges ==
    \E vertices_to_check \in VerticesToCheck, stale \in BOOLEAN :
        Observe("remove_vertices_of_degree_2_and_merge_edges", <<vertices_to_check>>,
                remove_vertices_of_degree_2_and_merge_edges(This, vertices_to_check, stale))

NextMerge ==
    \/ Call_remove_vertices_of_degree_2_and_merge_edges

SpecMerge == InitSplit /\ [][NextMerge]_vars


(***************************************************************************)
(* Properties.  A state with last.op set is the state right after the call *)
(* last.op(last.args) made on the graph pre.                               *)
(***************************************************************************)
Called(op) == last.op = op /\ last.after.op = "none"

Incident(g, v) == SelectSeq(g.m_edges, LAMBDA x : x.source = v \/ x.target = v)

NotIncident(g, v) == SelectSeq(g.m_edges, LAMBDA x : x.source # v /\ x.target # v)

Without(list, ids) == SelectSeq(list, LAMBDA x : x.id \notin ids)

SelfLoopFree(g) == \A x \in Range(g.m_edges) : x.source # x.target

CurveSizes(list) == SumSeq([i \in DOMAIN list |-> Len(list[i].curve)])

\* C1 (I4, P2): after any sequence of public operations, edge_spline_count_
\* equals the total number of samples of the curves of the edges present.
C1_SplineCountIsSampleTotal ==
    edge_spline_count_ = SampleTotal(Graph)

\* C2 (I1, P1): after any public operation, the curve of every edge starts
\* at the position of the edge's source and ends at the position of the
\* edge's target, the edges that were already incident to a vertex the
\* operation repositions included.
C2_CurveEndsAtEndpoints ==
    \A x \in Range(m_edges) :
        /\ x.curve[1] = get_vertex(Graph, x.source).position
        /\ x.curve[Len(x.curve)] = get_vertex(Graph, x.target).position

\* C3 (I3, P3): a rewrite operation (collapse_edge, merge_vertices,
\* split_edge_at, cut_edge_at, remove_degree_2_vertex_and_merge_edges) that
\* is called on a graph without self-loops and returns without an error
\* leaves a graph without self-loops.
C3_RewritesCreateNoSelfLoop ==
    (/\ \/ Called("collapse_edge")
        \/ Called("merge_vertices")
        \/ Called("split_edge_at")
        \/ Called("cut_edge_at")
        \/ Called("remove_degree_2_vertex_and_merge_edges")
     /\ last.err = "none"
     /\ SelfLoopFree(pre))
    => SelfLoopFree(Graph)

\* C4: add_edge with two non-null endpoints returns (e, true), adds exactly
\* the edge e from -> to and changes no other edge and no vertex; the
\* three-argument form raises edge_spline_count_ by the size of the curve
\* handed over, the two-argument form builds a two-sample curve and raises
\* it by 2.
C4_AddEdgeAddsOneEdge ==
    (/\ Called("add_edge") \/ Called("add_edge_from_to")
     /\ last.args[1] # null_vertex
     /\ last.args[2] # null_vertex)
    => /\ last.ret.second
       /\ last.ret.first \notin Ids(pre.m_edges)
       /\ m_vertices = pre.m_vertices
       /\ Len(m_edges) = Len(pre.m_edges) + 1
       /\ SubSeq(m_edges, 1, Len(pre.m_edges)) = pre.m_edges
       /\ LET x == m_edges[Len(m_edges)]
          IN  /\ x.id = last.ret.first
              /\ x.source = last.args[1]
              /\ x.target = last.args[2]
              /\ IF last.op = "add_edge"
                 THEN /\ x.curve = last.args[3]
                      /\ edge_spline_count_ = pre.edge_spline_count_ + Len(last.args[3])
                 ELSE /\ Len(x.curve) = 2
                      /\ edge_spline_count_ = pre.edge_spline_count_ + 2

\* C5: add_edge(from, to, properties) with from or to the null vertex
\* returns (_, false) and changes neither the vertices, nor the edges, nor
\* edge_spline_count_.
C5_AddEdgeNullEndpoint ==
    (/\ Called("add_edge")
     /\ last.args[1] = null_vertex \/ last.args[2] = null_vertex)
    => /\ ~last.ret.second
       /\ Graph = pre

\* an add_edge whose source is null and whose target is a vertex of a graph
\* that has an edge
C5_Witness ==
    /\ Called("add_edge")
    /\ last.args[1] = null_vertex
    /\ last.args[2] # null_vertex
    /\ pre.m_edges # <<>>
    /\ ~last.ret.second

\* C6: remove_vertex(v) removes v and exactly the edges incident to v,
\* returns exactly those edges, and lowers edge_spline_count_ by the sizes
\* of their curves, whatever the neighbourhood of v (a self-loop on v
\* included); remove_vertex(null) returns the empty list and changes
\* nothing.
C6_RemoveVertexRemovesIncidentEdges ==
    Called("remove_vertex") =>
        LET v == last.args[1]
        IN  IF v = null_vertex
            THEN last.ret = <<>> /\ Graph = pre
            ELSE /\ m_vertices = Without(pre.m_vertices, {v})
                 /\ m_edges = NotIncident(pre, v)
                 /\ Len(last.ret) = Len(Incident(pre, v))
                 /\ Range(last.ret) = Ids(Incident(pre, v))
                 /\ edge_spline_count_ =
                        pre.edge_spline_count_ - CurveSizes(Incident(pre, v))

\* C7: remove_edge(e) removes e; each end vertex of e that is left without
\* an incident edge is removed too and returned in the pair (null for an
\* end vertex that is kept), unless it is the only vertex of the graph; no
\* other vertex is removed, no vertex with an incident edge is removed, and
\* a graph with a vertex keeps a vertex.
C7_RemoveEdgeRemovesIsolatedEnds ==
    (Called("remove_edge") /\ last.args[1] # null_edge) =>
        LET e == get_edge(pre, last.args[1])
            rest == [pre EXCEPT !.m_edges = Without(@, {e.id})]
            gone == Ids(pre.m_vertices) \ Ids(m_vertices)
            returned(x) == IF x \in gone THEN x ELSE null_vertex
        IN  /\ m_edges = rest.m_edges
            /\ edge_spline_count_ = pre.edge_spline_count_ - Len(e.curve)
            /\ gone \subseteq {e.source, e.target}
            /\ m_vertices = Without(pre.m_vertices, gone)
            /\ m_vertices # <<>>
            /\ \A x \in gone : degree(rest, x) = 0
            /\ \A x \in {e.source, e.target} \ gone :
                   degree(rest, x) = 0 => Len(m_vertices) = 1
            /\ last.ret = <<returned(e.source), returned(e.target)>>

\* C8: split_edge_at(e, i, p) with i < size(e) - 1 removes e, adds one
\* vertex m at p, adds left = source(e) -> m with i + 2 samples and
\* right = m -> target(e) with size(e) - i samples, raises
\* edge_spline_count_ by 2, returns (m, (left, right)), gives both new edges
\* the cycle mark of e whatever the marks of their end vertices, and
\* removes no vertex.
C8_SplitEdgeAt ==
    (/\ Called("split_edge_at")
     /\ last.args[2] < Len(get_edge(pre, last.args[1]).curve) - 1)
    => /\ last.err = "none"
       /\ LET e == get_edge(pre, last.args[1])
              m == last.ret[1]
              left == last.ret[2][1]
              right == last.ret[2][2]
              n == Len(pre.m_edges)
          IN  /\ m \notin Ids(pre.m_vertices)
              /\ m_vertices = Append(pre.m_vertices,
                                     [id |-> m, position |-> last.args[3],
                                      is_part_of_cycle |-> FALSE])
              /\ {left, right} \cap Ids(pre.m_edges) = {}
              /\ left # right
              /\ Len(m_edges) = n + 1
              /\ SubSeq(m_edges, 1, n - 1) = Without(pre.m_edges, {e.id})
              /\ m_edges[n].id = left
              /\ m_edges[n].source = e.source
              /\ m_edges[n].target = m
              /\ Len(m_edges[n].curve) = last.args[2] + 2
              /\ m_edges[n].is_part_of_cycle = e.is_part_of_cycle
              /\ m_edges[n + 1].id = right
              /\ m_edges[n + 1].source = m
              /\ m_edges[n + 1].target = e.target
              /\ Len(m_edges[n + 1].curve) = Len(e.curve) - last.args[2]
              /\ m_edges[n + 1].is_part_of_cycle = e.is_part_of_cycle
              /\ edge_spline_count_ = pre.edge_spline_count_ + 2

\* a split past the first segment of a marked edge: the halves are marked
\* although the vertex between them is not
C8_Witness ==
    /\ Called("split_edge_at")
    /\ last.err = "none"
    /\ last.args[2] >= 1
    /\ get_edge(pre, last.args[1]).is_part_of_cycle
    /\ get_edge(Graph, last.ret[2][1]).is_part_of_cycle
    /\ ~get_vertex(Graph, last.ret[1]).is_part_of_cycle
    /\ Len(pre.m_edges) = 2

\* C9: split_edge_at(e, i, p) and cut_edge_at(e, i, p) with i >= size(e) - 1
\* fail with an invalid-argument error and change neither the vertices, nor
\* the edges, nor edge_spline_count_.
C9_SplitCutInvalidIndex ==
    (/\ Called("split_edge_at") \/ Called("cut_edge_at")
     /\ last.args[2] >= Len(get_edge(pre, last.args[1]).curve) - 1)
    => /\ last.err = "invalid_argument"
       /\ Graph = pre

\* a split at the index of the last sample of a three-sample curve
C9_Witness ==
    /\ Called("split_edge_at")
    /\ Len(get_edge(pre, last.args[1]).curve) = 3
    /\ last.args[2] = 2
    /\ last.err = "invalid_argument"

\* C10 (P5): split_edge_at(e, i, p) with a valid i, followed by
\* remove_degree_2_vertex_and_merge_edges on the vertex inserted, succeeds
\* and leaves as many vertices and as many edges as before the split; the
\* merged edge has the source and the target of e and its first and last
\* samples are those of e.
C10_SplitThenMerge ==
    (/\ last.op = "remove_degree_2_vertex_and_merge_edges"
     /\ last.after.op = "split_edge_at")
    => /\ last.err = "none"
       /\ Len(m_vertices) = Len(pre.m_vertices)
       /\ Len(m_edges) = Len(pre.m_edges)
       /\ LET e == get_edge(pre, last.after.args[1])
              merged == get_edge(Graph, last.ret[1])
          IN  /\ merged.source = e.source
              /\ merged.target = e.target
              /\ merged.curve[1] = e.curve[1]
              /\ merged.curve[Len(merged.curve)] = e.curve[Len(e.curve)]

\* a three-sample edge between two vertices split at its second segment and
\* merged back
C10_Witness ==
    /\ last.op = "remove_degree_2_vertex_and_merge_edges"
    /\ last.after.op = "split_edge_at"
    /\ last.after.args[2] = 1
    /\ last.err = "none"
    /\ get_edge(pre, last.after.args[1]).source # get_edge(pre, last.after.args[1]).target

\* C11: cut_edge_at(e, i, p) with i < size(e) - 1 returns
\* ((l, r), (left_edge, right_edge)): l and r are two distinct new vertices,
\* left_edge runs source(e) -> l and right_edge runs r -> target(e), no edge
\* joins l and r in either direction, e is removed, every vertex and every
\* other edge the call found is kept, and the graph has two more vertices
\* and one more edge.
C11_CutEdgeAt ==
    (/\ Called("cut_edge_at")
     /\ last.args[2] < Len(get_edge(pre, last.args[1]).curve) - 1)
    => /\ last.err = "none"
       /\ LET e == get_edge(pre, last.args[1])
              l == last.ret[1][1]
              r == last.ret[1][2]
              left_edge == last.ret[2][1]
              right_edge == last.ret[2][2]
              n == Len(pre.m_vertices)
          IN  /\ l # r
              /\ {l, r} \cap Ids(pre.m_vertices) = {}
              /\ Len(m_vertices) = n + 2
              /\ SubSeq(m_vertices, 1, n) = pre.m_vertices
              /\ Ids(m_vertices) = Ids(pre.m_vertices) \cup {l, r}
              /\ Len(m_edges) = Len(pre.m_edges) + 1
              /\ SubSeq(m_edges, 1, Len(pre.m_edges) - 1) = Without(pre.m_edges, {e.id})
              /\ Ids(m_edges) = (Ids(pre.m_edges) \ {e.id}) \cup {left_edge, right_edge}
              /\ left_edge # right_edge
              /\ get_edge(Graph, left_edge).source = e.source
              /\ get_edge(Graph, left_edge).target = l
              /\ get_edge(Graph, right_edge).source = r
              /\ get_edge(Graph, right_edge).target = e.target
              /\ ~boost_edge(Graph, l, r).second
              /\ ~boost_edge(Graph, r, l).second

\* a cut at the second segment of a three-sample edge, next to another edge
C11_Witness ==
    /\ Called("cut_edge_at")
    /\ last.err = "none"
    /\ last.args[2] = 1
    /\ Len(pre.m_edges) = 2
    /\ Len(m_vertices) = Len(pre.m_vertices) + 2

\* the edges of list that run from a to b with a curve of k samples
Running(list, a, b, k) ==
    Cardinality({j \in DOMAIN list : /\ list[j].source = a
                                     /\ list[j].target = b
                                     /\ Len(list[j].curve) = k})

\* the edges of g that were not in pre
Added(g) == SelectSeq(g.m_edges, LAMBDA x : x.id \notin Ids(pre.m_edges))

\* C12 (P5): collapse_edge(e, MIDPOINT) on an edge e = (u, v) of the graph
\* leaves one vertex fewer (the same single vertex when the graph has only
\* one) and at least one edge fewer, and the vertex that survives of u and
\* v is at (pos(u) + pos(v)) / 2.
C12_CollapseMidpoint ==
    (Called("collapse_edge") /\ last.args[2] = MIDPOINT) =>
        LET e == get_edge(pre, last.args[1])
            mid == (get_vertex(pre, e.source).position
                    + get_vertex(pre, e.target).position) \div 2
        IN  /\ last.err = "none"
            /\ Len(m_vertices) = IF Len(pre.m_vertices) = 1
                                 THEN 1
                                 ELSE Len(pre.m_vertices) - 1
            /\ Len(m_edges) <= Len(pre.m_edges) - 1
            /\ \E x \in {e.source, e.target} \cap Ids(m_vertices) :
                   get_vertex(Graph, x).position = mid

\* C13: collapse_edge(e, option) keeps source(e) for SOURCE and MIDPOINT and
\* target(e) for TARGET; each edge other than e that joins the dropped
\* vertex to a third vertex x has exactly one replacement, x -> keep for an
\* in-edge and keep -> x for an out-edge, with as many samples; every edge
\* that ran between keep and drop is removed, and nothing takes its place
\* (when drop carries no self-loop, no edge joins keep and drop
\* afterwards); the edges not incident to drop are untouched.
C13_CollapseReattaches ==
    Called("collapse_edge") =>
        LET e == get_edge(pre, last.args[1])
            keep == IF last.args[2] = TARGET THEN e.target ELSE e.source
            drop == IF last.args[2] = TARGET THEN e.source ELSE e.target
            third == Ids(pre.m_vertices) \ {keep, drop}
            old == Incident(pre, drop)
            sizes == 2..MaxCurveSize
        IN  /\ last.err = "none"
            /\ keep \in Ids(m_vertices)
            /\ \A x \in third, k \in sizes :
                   /\ Running(Added(Graph), x, keep, k) = Running(old, x, drop, k)
                   /\ Running(Added(Graph), keep, x, k) = Running(old, drop, x, k)
            /\ \A y \in Range(Added(Graph)) :
                   {y.source, y.target} \cap third # {} => keep \in {y.source, y.target}
            /\ Ids(old) \cap Ids(m_edges) = {}
            /\ (keep # drop /\ ~boost_edge(pre, drop, drop).second) =>
                   /\ ~boost_edge(Graph, keep, drop).second
                   /\ ~boost_edge(Graph, drop, keep).second
            /\ NotIncident(pre, drop) = Without(m_edges, Ids(Added(Graph)))

\* a collapse that drops a vertex joined to a third vertex by a three-sample
\* edge and to the kept vertex by an edge parallel to the collapsed one
C13_Witness ==
    /\ Called("collapse_edge")
    /\ last.err = "none"
    /\ LET e == get_edge(pre, last.args[1])
           keep == IF last.args[2] = TARGET THEN e.target ELSE e.source
           drop == IF last.args[2] = TARGET THEN e.source ELSE e.target
       IN  /\ keep # drop
           /\ \E x \in Ids(pre.m_vertices) \ {keep, drop} :
                  /\ Running(pre.m_edges, x, drop, 3) = 1
                  /\ Running(m_edges, x, keep, 3) = 1
           /\ \E y \in Range(pre.m_edges) :
                  y.id # e.id /\ {y.source, y.target} = {keep, drop}

\* C14: merge_vertices(a, b, option) on two distinct vertices removes
\* exactly one vertex, b for SOURCE and MIDPOINT and a for TARGET, and keeps
\* every other; afterwards no edge runs from a to b, no edge is incident to
\* the removed vertex, and each edge that joined the removed vertex to a
\* third vertex x has a replacement joining x to the kept vertex.
C14_MergeVertices ==
    (Called("merge_vertices") /\ last.args[1] # last.args[2]) =>
        LET a == last.args[1]
            b == last.args[2]
            keep == IF last.args[3] = TARGET THEN b ELSE a
            drop == IF last.args[3] = TARGET THEN a ELSE b
            third == Ids(pre.m_vertices) \ {a, b}
            old == Incident(pre, drop)
        IN  /\ last.err = "none"
            /\ IdSeq(m_vertices) = IdSeq(Without(pre.m_vertices, {drop}))
            /\ Len(m_vertices) = Len(pre.m_vertices) - 1
            /\ ~boost_edge(Graph, a, b).second
            /\ Incident(Graph, drop) = <<>>
            /\ \A x \in third, k \in 2..MaxCurveSize :
                   /\ Running(Added(Graph), x, keep, k) = Running(old, x, drop, k)
                   /\ Running(Added(Graph), keep, x, k) = Running(old, drop, x, k)

\* a merge that keeps its second vertex and drops a first vertex that has
\* a self-loop, an edge to a third vertex and an edge to the second
C14_Witness ==
    /\ Called("merge_vertices")
    /\ last.err = "none"
    /\ last.args[3] = TARGET
    /\ LET a == last.args[1]
           b == last.args[2]
       IN  /\ a # b
           /\ boost_edge(pre, a, a).second
           /\ boost_edge(pre, a, b).second
           /\ \E x \in Ids(pre.m_vertices) \ {a, b} :
                  boost_edge(pre, a, x).second /\ boost_edge(Graph, b, x).second
           /\ a \notin Ids(m_vertices)

\* the edge ends at v: its in-edges and its out-edges, a self-loop twice
EdgeEnds(g, v) ==
    Cardinality({j \in DOMAIN g.m_edges : g.m_edges[j].target = v})
    + Cardinality({j \in DOMAIN g.m_edges : g.m_edges[j].source = v})

\* C15: remove_degree_2_vertex_and_merge_edges(v) on a vertex whose degree
\* is not 2 fails with an invalid-argument error and changes neither the
\* vertices, nor the edges, nor edge_spline_count_.
C15_MergeNeedsDegree2 ==
    (/\ Called("remove_degree_2_vertex_and_merge_edges")
     /\ EdgeEnds(pre, last.args[1]) # 2)
    => /\ last.err = "invalid_argument"
       /\ Graph = pre

\* the call on a vertex with one in-edge and two out-edges
C15_Witness ==
    /\ Called("remove_degree_2_vertex_and_merge_edges")
    /\ Len(boost_in_edges(pre, last.args[1])) = 1
    /\ Len(boost_out_edges(pre, last.args[1])) = 2
    /\ last.err = "invalid_argument"

\* C16: remove_degree_2_vertex_and_merge_edges(v) on any vertex of degree 2
\* succeeds: it removes v and exactly the two edges incident to v, adds
\* exactly one edge, which joins the two far end vertices and has
\* size(e1) + size(e2) - 1 samples, and returns it with the two removed
\* edges.
C16_MergeDegree2 ==
    (/\ Called("remove_degree_2_vertex_and_merge_edges")
     /\ EdgeEnds(pre, last.args[1]) = 2)
    => /\ last.err = "none"
       /\ LET v == last.args[1]
              merged == get_edge(Graph, last.ret[1])
              e1 == get_edge(pre, last.ret[2][1])
              e2 == get_edge(pre, last.ret[2][2])
              far(x) == IF x.source = v THEN x.target ELSE x.source
          IN  /\ m_vertices = Without(pre.m_vertices, {v})
              /\ last.ret[2][1] # last.ret[2][2]
              /\ {last.ret[2][1], last.ret[2][2]} = Ids(Incident(pre, v))
              /\ last.ret[1] \notin Ids(pre.m_edges)
              /\ last.ret[1] \in Ids(m_edges)
              /\ Without(m_edges, {last.ret[1]}) = NotIncident(pre, v)
              /\ \/ merged.source = far(e1) /\ merged.target = far(e2)
                 \/ merged.source = far(e2) /\ merged.target = far(e1)
              /\ Len(merged.curve) = Len(e1.curve) + Len(e2.curve) - 1

\* the vertices one edge away from a vertex of S, whatever its direction
Around(g, S) ==
    {x.target : x \in {y \in Range(g.m_edges) : y.source \in S}}
        \cup {x.source : x \in {y \in Range(g.m_edges) : y.target \in S}}

RECURSIVE Component(_, _)
\* the vertices joined to a vertex of S by edges taken either way
Component(g, S) ==
    IF Around(g, S) \subseteq S THEN S ELSE Component(g, S \cup Around(g, S))

RECURSIVE Distance(_, _, _)
\* the least number of edges from a vertex of S to b, in the component of b
Distance(g, S, b) ==
    IF b \in S THEN 0 ELSE 1 + Distance(g, S \cup Around(g, S), b)

\* C17: shortest_path(a, a) is [a]; for a and b in one undirected component
\* the path starts at a, ends at b, goes from each vertex to an adjacent
\* one and has the least number of vertices; it fails with NoPath exactly
\* when a and b are in different components
C17_ShortestPath ==
    Called("shortest_path") =>
        LET a == last.args[1]
            b == last.args[2]
            path == last.ret
        IN  /\ a = b => last.err = "none" /\ path = <<a>>
            /\ b \in Component(pre, {a}) =>
                   /\ last.err = "none"
                   /\ path[1] = a
                   /\ path[Len(path)] = b
                   /\ \A i \in 1..(Len(path) - 1) : path[i + 1] \in Around(pre, {path[i]})
                   /\ Len(path) = Distance(pre, {a}, b) + 1
            /\ last.err = "invalid_argument" <=> b \notin Component(pre, {a})

\* the number of undirected connected components of g
Components(g) == Cardinality({Component(g, {v}) : v \in Ids(g.m_vertices)})

\* g with one more edge, from a to b
Joined(g, a, b) ==
    [g EXCEPT !.m_edges = Append(@, [id |-> Len(@) + 1, source |-> a, target |-> b,
                                     curve |-> <<0, 0>>, is_part_of_cycle |-> FALSE])]

\* C18: count_connected_components returns the number of undirected
\* connected components, parallel edges and self-loops included; one more
\* edge between two components lowers the result by one, one more edge
\* inside a component leaves it unchanged
C18_CountConnectedComponents ==
    Called("count_connected_components") =>
        /\ last.err = "none"
        /\ last.ret = Components(pre)
        /\ \A a \in Ids(pre.m_vertices), b \in Ids(pre.m_vertices) :
               count_connected_components(Joined(pre, a, b)).ret
                   = IF b \in Component(pre, {a}) THEN last.ret ELSE last.ret - 1

\* the edge x of g is on a cycle of the undirected multigraph: it is a
\* self-loop, or its ends are joined without it
OnCycle(g, x) ==
    \/ x.source = x.target
    \/ x.target \in Component([g EXCEPT !.m_edges = SelectSeq(@, LAMBDA y : y.id # x.id)],
                              {x.source})

\* the vertex v of g is on a cycle: one of its edges is
VertexOnCycle(g, v) ==
    \E x \in Range(g.m_edges) : (x.source = v \/ x.target = v) /\ OnCycle(g, x)

\* C19: after find_cycles, whatever the marks were before, a vertex has
\* is_part_of_cycle set exactly when it is on a cycle of the underlying
\* undirected multigraph
C19_VertexInCycle ==
    Called("find_cycles") =>
        /\ last.err = "none"
        /\ \A v \in Range(m_vertices) : v.is_part_of_cycle <=> VertexOnCycle(pre, v.id)

\* find_cycles has run on a graph where two antiparallel edges make the
\* only cycle, a vertex outside it was marked before and a vertex on it
\* was not
C19_Witness ==
    /\ Called("find_cycles")
    /\ \E x \in Range(pre.m_edges), y \in Range(pre.m_edges) :
           /\ x.source = y.target /\ x.target = y.source /\ x.source # x.target
           /\ \A z \in Range(pre.m_edges) : OnCycle(pre, z) => z.id \in {x.id, y.id}
    /\ \E i \in DOMAIN m_vertices :
           pre.m_vertices[i].is_part_of_cycle /\ ~m_vertices[i].is_part_of_cycle
    /\ \E i \in DOMAIN m_vertices :
           ~pre.m_vertices[i].is_part_of_cycle /\ m_vertices[i].is_part_of_cycle

\* C20: after find_cycles an edge has is_part_of_cycle set exactly when it
\* is on a cycle: every edge of every cycle is marked, every parallel edge
\* included, and no bridge is
C20_EdgeInCycle ==
    Called("find_cycles") =>
        \A x \in Range(m_edges) : x.is_part_of_cycle <=> OnCycle(pre, x)

\* find_cycles has run on two triangles that share a vertex, and the six
\* edges are marked
C20_Witness ==
    /\ Called("find_cycles")
    /\ Len(m_vertices) = BowtieVertices
    /\ Len(m_edges) = Len(Bowtie)
    /\ \A x \in Range(m_edges) : x.is_part_of_cycle
    /\ \E x \in Range(pre.m_edges) : ~x.is_part_of_cycle

\* the graph is the triangle built by three add_vertex calls and
\* add_edge(0, 1), add_edge(1, 2), add_edge(2, 0), the vertices being named
\* 1, 2, 3 here
Triangle(g) ==
    /\ Len(g.m_vertices) = 3
    /\ [j \in DOMAIN g.m_edges |-> <<g.m_edges[j].source, g.m_edges[j].target>>]
           = <<<<1, 2>>, <<2, 3>>, <<3, 1>>>>

\* C21: the triangle built from the empty graph has 3 vertices, 3 edges and
\* edge_spline_count 6; count_connected_components returns 1 on it and
\* find_cycles marks its three vertices and its three edges
C21_Triangle ==
    /\ Triangle(Graph) =>
           /\ vertex_count(Graph) = 3
           /\ edge_count(Graph) = 3
           /\ edge_spline_count_ = 6
    /\ Called("count_connected_components") /\ Triangle(pre) => last.ret = 1
    /\ Called("find_cycles") /\ Triangle(pre) =>
           /\ \A v \in Range(m_vertices) : v.is_part_of_cycle
           /\ \A x \in Range(m_edges) : x.is_part_of_cycle

\* g is a path A-B-C-D whose end edge A-B alone is shorter than min_length
ShortEndPath(g, A, B, C, D, min_length) ==
    /\ Len(g.m_vertices) = 4
    /\ {A, B, C, D} = Ids(g.m_vertices)
    /\ Len(g.m_edges) = 3
    /\ {{x.source, x.target} : x \in Range(g.m_edges)} = {{A, B}, {B, C}, {C, D}}
    /\ \A x \in Range(g.m_edges) :
           curve_length(x.curve) < min_length <=> {x.source, x.target} = {A, B}

\* C22: on a path A-B-C-D whose end edge A-B alone is shorter than min_len,
\* collapse_edges_shorter_than(min_len) returns 1 and leaves three
\* vertices, the merged one at the midpoint of A and B, C and D, and two
\* edges
C22_CollapseShortEnd ==
    Called("collapse_edges_shorter_than") =>
        \A A \in Ids(pre.m_vertices), B \in Ids(pre.m_vertices),
           C \in Ids(pre.m_vertices), D \in Ids(pre.m_vertices) :
            ShortEndPath(pre, A, B, C, D, last.args[1]) =>
                /\ last.ret = 1
                /\ vertex_count(Graph) = 3
                /\ edge_count(Graph) = 2
                /\ {v.position : v \in Range(m_vertices)}
                       = {(get_vertex(pre, A).position + get_vertex(pre, B).position) \div 2,
                          get_vertex(pre, C).position,
                          get_vertex(pre, D).position}


\* C23: remove_vertices_of_degree(k) removes exactly the vertices whose
\* degree was k when it was called, whatever the order of the visit and
\* the degrees the removals leave
C23_RemoveOfDegree ==
    Called("remove_vertices_of_degree") =>
        Ids(m_vertices) = {v \in Ids(pre.m_vertices) : EdgeEnds(pre, v) # last.args[1]}

\* C24: split_path(e, e, d) fails with InvalidArgument and changes nothing:
\* vertices, edges, curves, marks and edge_spline_count are as before
C24_SplitPathSameEdge ==
    Called("split_path") /\ last.args[1] = last.args[2] =>
        /\ last.err = "invalid_argument"
        /\ Graph = pre

\* split_path has been called with one edge given twice
C24_Witness ==
    /\ Called("split_path")
    /\ last.args[1] = last.args[2]
    /\ last.args[1] \in Ids(pre.m_edges)
    /\ last.err = "invalid_argument"

\* g is made of e1 between a and b, e2 between c and d, and the path b-x-c
TwoEdgesAndPath(g, e1, e2) ==
    /\ Len(g.m_vertices) = 5
    /\ Len(g.m_edges) = 4
    /\ \E a, b, x, c, d \in Ids(g.m_vertices) :
           /\ Cardinality({a, b, x, c, d}) = 5
           /\ {get_edge(g, e1).source, get_edge(g, e1).target} = {a, b}
           /\ {get_edge(g, e2).source, get_edge(g, e2).target} = {c, d}
           /\ {{y.source, y.target} : y \in Range(g.m_edges)}
                  = {{a, b}, {b, x}, {x, c}, {c, d}}

\* C25: on two disjoint edges e1 = (a, b) and e2 = (c, d) and a path b-x-c,
\* split_path(e1, e2, d) adds one edge joining a and d, removes e1, e2 and
\* the vertex x, and leaves a graph with exactly one edge
C25_SplitPathJoins ==
    Called("split_path") /\ TwoEdgesAndPath(pre, last.args[1], last.args[2]) =>
        /\ last.err = "none"
        /\ last.args[1] \notin Ids(m_edges)
        /\ last.args[2] \notin Ids(m_edges)
        /\ \E y \in Range(m_edges) :
               /\ y.id \notin Ids(pre.m_edges)
               /\ Cardinality({y.source, y.target}
                       \cap {get_edge(pre, last.args[1]).source,
                             get_edge(pre, last.args[1]).target}) = 1
               /\ Cardinality({y.source, y.target}
                       \cap {get_edge(pre, last.args[2]).source,
                             get_edge(pre, last.args[2]).target}) = 1
        /\ Cardinality(Ids(pre.m_vertices) \ Ids(m_vertices)) >= 1
        /\ edge_count(Graph) = 1

\* C26: a successful split_path lists every vertex that left the graph in
\* its removed vertices, every edge that left it in its removed edges, and
\* only edges of the graph in its added edges
C26_SplitPathLists ==
    Called("split_path") /\ last.err = "none" =>
        /\ Ids(pre.m_vertices) \ Ids(m_vertices) \subseteq Range(last.ret[2][1])
        /\ Ids(pre.m_edges) \ Ids(m_edges) \subseteq Range(last.ret[2][2])
        /\ Range(last.ret[1]) \subseteq Ids(m_edges)

\* C27: split_edge_along_curve(e, pairs) on an existing edge creates no
\* vertex, adds one edge s_i -> t_i per pair, removes e and every edge that
\* joined an end of e to some s_i or t_i, and returns the vertices and the
\* edges that left the graph, each once; when e does not exist it returns
\* four empty lists and changes nothing
C27_SplitEdgeAlongCurve ==
    Called("split_edge_along_curve") =>
        LET e == last.args[1]
            pairs == last.args[2]
            removed_vertices == last.ret[1][1]
            removed_edges == last.ret[1][2]
            added_vertices == last.ret[2][1]
            added_edges == last.ret[2][2]
            once(list) == Cardinality(Range(list)) = Len(list)
        IN  /\ last.err = "none"
            /\ e \notin Ids(pre.m_edges) =>
                   /\ last.ret = <<<<<<>>, <<>>>>, <<<<>>, <<>>>>>>
                   /\ Graph = pre
            /\ e \in Ids(pre.m_edges) =>
                   /\ added_vertices = <<>>
                   /\ Ids(m_vertices) \subseteq Ids(pre.m_vertices)
                   /\ Len(added_edges) = Len(pairs)
                   /\ \A i \in DOMAIN pairs :
                          /\ added_edges[i] \in Ids(m_edges) \ Ids(pre.m_edges)
                          /\ get_edge(Graph, added_edges[i]).source = pairs[i][1]
                          /\ get_edge(Graph, added_edges[i]).target = pairs[i][2]
                   /\ Ids(m_edges) \ Ids(pre.m_edges) = Range(added_edges)
                   /\ e \notin Ids(m_edges)
                   /\ \A x \in Range(pre.m_edges) :
                          /\ {x.source, x.target} \cap
                                 {get_edge(pre, e).source, get_edge(pre, e).target} # {}
                          /\ {x.source, x.target} \cap
                                 UNION {{pairs[i][1], pairs[i][2]} : i \in DOMAIN pairs} # {}
                          => x.id \notin Ids(m_edges)
                   /\ Range(removed_vertices) = Ids(pre.m_vertices) \ Ids(m_vertices)
                   /\ once(removed_vertices)
                   /\ Range(removed_edges) = Ids(pre.m_edges) \ Ids(m_edges)
                   /\ once(removed_edges)

\* the place of the vertex v in the vertex list of g
Place(g, v) == CHOOSE i \in DOMAIN g.m_vertices : g.m_vertices[i].id = v

\* C28: the file that export_to_file writes for a graph, imported into an
\* empty graph, gives a graph with as many vertices and edges, whose
\* vertices have, place by place, the same position, radius and cycle flag,
\* and whose edges have, place by place, the same source and target, the
\* same cycle flag and the same curve samples
C28_ExportImportRoundTrip ==
    last.op = "import_from_file" /\ last.after.op = "export_to_file" =>
        /\ vertex_count(Graph) = vertex_count(pre)
        /\ edge_count(Graph) = edge_count(pre)
        /\ \A i \in DOMAIN pre.m_vertices \cap DOMAIN m_vertices :
               /\ m_vertices[i].position = pre.m_vertices[i].position
               /\ m_vertices[i].radius = pre.m_vertices[i].radius
               /\ m_vertices[i].is_part_of_cycle = pre.m_vertices[i].is_part_of_cycle
        /\ \A j \in DOMAIN pre.m_edges \cap DOMAIN m_edges :
               /\ Place(Graph, m_edges[j].source) = Place(pre, pre.m_edges[j].source)
               /\ Place(Graph, m_edges[j].target) = Place(pre, pre.m_edges[j].target)
               /\ m_edges[j].is_part_of_cycle = pre.m_edges[j].is_part_of_cycle
               /\ m_edges[j].curve = pre.m_edges[j].curve

\* the vertices that the last call added, in the order of the vertex list
ImportedVertices == SubSeq(m_vertices, Len(pre.m_vertices) + 1, Len(m_vertices))

\* the edges that the last call added, in the order of the edge list
ImportedEdges == SubSeq(m_edges, Len(pre.m_edges) + 1, Len(m_edges))

\* C29: import_from_file stores a vertex whose radius field reads as a
\* number above 10000 with the radius 1, one whose field reads as a number
\* of at most 10000 with the number read, and one whose field does not read
\* as a number with the radius 1
C29_ImportRadius ==
    Called("import_from_file") =>
        \A i \in DOMAIN last.args[2] :
            LET read == sscanf_s(last.args[2][i].radius)
                stored == ImportedVertices[i].radius
            IN  /\ i \in DOMAIN ImportedVertices
                /\ read.count = 1 /\ read.value > 10000 => stored = 1
                /\ read.count = 1 /\ read.value <= 10000 => stored = read.value
                /\ read.count = 0 => stored = 1

\* C30: import_from_file returns without an exception; it adds one vertex
\* for every vertex block of the file, and one edge for every edge block
\* whose two indices are below the number of vertex blocks, from the vertex
\* added for the block at the source index to the one added for the block at
\* the target index; an edge block with an index that is not below that
\* number adds no edge, and the blocks after it are handled like the others
C30_ImportSkipsBadEdges ==
    Called("import_from_file") =>
        LET vertex_blocks == last.args[2]
            edge_blocks == last.args[3]
            good == SelectSeq(edge_blocks,
                              LAMBDA b : b.source < Len(vertex_blocks)
                                         /\ b.target < Len(vertex_blocks))
        IN  /\ last.err = "none"
            /\ Len(m_vertices) = Len(pre.m_vertices) + Len(vertex_blocks)
            /\ Len(m_edges) = Len(pre.m_edges) + Len(good)
            /\ \A j \in DOMAIN good \cap DOMAIN ImportedEdges :
                   /\ ImportedEdges[j].source = ImportedVertices[good[j].source + 1].id
                   /\ ImportedEdges[j].target = ImportedVertices[good[j].target + 1].id

\* a file whose first edge block has an index too large and whose second has
\* not was imported, and an edge was added
C30_Witness ==
    /\ Called("import_from_file")
    /\ Len(last.args[3]) = 2
    /\ last.args[3][1].source >= Len(last.args[2])
    /\ last.args[3][2].source < Len(last.args[2])
    /\ last.args[3][2].target < Len(last.args[2])
    /\ Len(m_edges) = Len(pre.m_edges) + 1

\* the graph without its curves and without the positions of its vertices
Topology(g) ==
    [m_vertices |-> [i \in DOMAIN g.m_vertices |->
                        [id |-> g.m_vertices[i].id,
                         is_part_of_cycle |-> g.m_vertices[i].is_part_of_cycle]],
     m_edges |-> [j \in DOMAIN g.m_edges |->
                     [id |-> g.m_edges[j].id,
                      source |-> g.m_edges[j].source,
                      target |-> g.m_edges[j].target,
                      is_part_of_cycle |-> g.m_edges[j].is_part_of_cycle]],
     edge_spline_count_ |-> g.edge_spline_count_]

\* the end of the curve of the edge x that lies at the vertex v is at p
EndsAt(x, v, p) ==
    /\ x.target = v => x.curve[Len(x.curve)] = p
    /\ x.source = v => x.curve[1] = p

\* C31: update_vertex_position(v, p) on the null vertex returns false and
\* changes nothing; on a vertex of the graph it leaves the vertices, the
\* edges, their ends and edge_spline_count as they were, puts v at p whether
\* it returns true or false, returns true only with every edge at v ending
\* at p, and returns false when a deformation fails, the edges visited
\* before the failing one (in-edges first, then out-edges) ending at p and
\* the edges not yet visited keeping their curve
C31_UpdateVertexPosition ==
    Called("update_vertex_position") =>
        LET v == last.args[1]
            p == last.args[2]
            failure == last.args[3]
            todo == [i \in DOMAIN boost_in_edges(pre, v) |->
                        [edge |-> boost_in_edges(pre, v)[i].id, end |-> "back"]]
                    \o [i \in DOMAIN boost_out_edges(pre, v) |->
                        [edge |-> boost_out_edges(pre, v)[i].id, end |-> "front"]]
        IN  /\ v = null_vertex => last.ret = FALSE /\ Graph = pre
            /\ v # null_vertex =>
                   /\ Topology(Graph) = Topology(pre)
                   /\ get_vertex(Graph, v).position = p
                   /\ \A x \in Range(m_vertices) :
                          x.id # v => x.position = get_vertex(pre, x.id).position
                   /\ \A x \in Range(m_edges) :
                          /\ Len(x.curve) = Len(get_edge(pre, x.id).curve)
                          /\ x.source # v /\ x.target # v => x.curve = get_edge(pre, x.id).curve
                   /\ last.ret = (failure = 0)
                   /\ last.ret => \A x \in Range(m_edges) : EndsAt(x, v, p)
                   /\ ~last.ret =>
                          /\ \A i \in 1..(failure - 1) :
                                 todo[i].edge # todo[failure].edge =>
                                     LET x == get_edge(Graph, todo[i].edge)
                                     IN  IF todo[i].end = "back"
                                         THEN x.curve[Len(x.curve)] = p
                                         ELSE x.curve[1] = p
                          /\ \A i \in (failure + 1)..Len(todo) :
                                 (\A k \in 1..failure : todo[k].edge # todo[i].edge) =>
                                     get_edge(Graph, todo[i].edge).curve
                                         = get_edge(pre, todo[i].edge).curve

\* a deformation failed after another one had been made and before the last
\* edge was visited
C31_Witness ==
    /\ Called("update_vertex_position")
    /\ last.ret = FALSE
    /\ last.args[3] > 1
    /\ last.args[3] < degree(pre, last.args[1])
    /\ get_vertex(Graph, last.args[1]).position = last.args[2]

\* the last call was one of the graph algorithms
CalledAlgorithm ==
    \/ Called("shortest_path")
    \/ Called("shortest_path_edges")
    \/ Called("count_connected_components")
    \/ Called("find_cycles")

\* the graph without the cycle flags of its vertices and edges
Unflagged(g) ==
    [m_vertices |-> [i \in DOMAIN g.m_vertices |->
                        [id |-> g.m_vertices[i].id,
                         position |-> g.m_vertices[i].position]],
     m_edges |-> [j \in DOMAIN g.m_edges |->
                     [id |-> g.m_edges[j].id,
                      source |-> g.m_edges[j].source,
                      target |-> g.m_edges[j].target,
                      curve |-> g.m_edges[j].curve]],
     edge_spline_count_ |-> g.edge_spline_count_]

\* C32: shortest_path between two vertices or two edges,
\* count_connected_components and find_cycles leave the vertices, the edges,
\* their ends, the positions, the curves and edge_spline_count as they were,
\* whether they return or throw; only find_cycles writes cycle flags
C32_AlgorithmsKeepTheGraph ==
    CalledAlgorithm =>
        /\ Unflagged(Graph) = Unflagged(pre)
        /\ ~Called("find_cycles") => Graph = pre

\* find_cycles was called on a graph with edges and changed a cycle flag
C32_Witness ==
    /\ Called("find_cycles")
    /\ m_edges # <<>>
    /\ Graph # pre

\* C34: when shortest_path, count_connected_components or find_cycles
\* returns, or throws because there is no path, every vertex has
\* BFS_parent and cycle_parent null, BFS_path_cost (GRuint)-1 and
\* is_in_spanning_tree false
C34_MarksCleared ==
    CalledAlgorithm /\ last.err \in {"none", "invalid_argument"} =>
        last.marks = cleared_marks(Graph)

\* the cycle flags of the vertices of g, by vertex
VertexFlags(g) ==
    {<<g.m_vertices[i].id, g.m_vertices[i].is_part_of_cycle>> : i \in DOMAIN g.m_vertices}

\* the cycle flags of the edges of g, by edge
EdgeFlags(g) ==
    {<<g.m_edges[j].id, g.m_edges[j].is_part_of_cycle>> : j \in DOMAIN g.m_edges}

\* C33: after add_edge(from, to, properties) has added an edge, the cycle
\* flag of the new edge is the conjunction of the flags of from and to,
\* whatever flag the properties carried, and the flags of the vertices and
\* of the other edges are as they were
C33_AddEdgeFlag ==
    Called("add_edge") /\ last.ret.second =>
        /\ get_edge(Graph, last.ret.first).is_part_of_cycle
               = (get_vertex(pre, last.args[1]).is_part_of_cycle
                  /\ get_vertex(pre, last.args[2]).is_part_of_cycle)
        /\ VertexFlags(Graph) = VertexFlags(pre)
        /\ EdgeFlags(Graph)
               = EdgeFlags(pre) \cup {<<last.ret.first,
                                        get_edge(Graph, last.ret.first).is_part_of_cycle>>}

\* an edge handed over unflagged was added flagged, next to another edge
C33_Witness ==
    /\ Called("add_edge")
    /\ last.ret.second
    /\ ~last.args[4]
    /\ get_edge(Graph, last.ret.first).is_part_of_cycle
    /\ Len(m_edges) > 1

\* C35: after collapse_edge(e, option) has returned, the dropped vertex has
\* no edge, and no edge of the returned list of added edges starts or ends
\* at it
C35_CollapseIsolatesDropped ==
    Called("collapse_edge") /\ last.err = "none" =>
        LET dropped == last.ret[1][1]
        IN  /\ \A j \in DOMAIN m_edges :
                   m_edges[j].source # dropped /\ m_edges[j].target # dropped
            /\ \A i \in DOMAIN last.ret[2] :
                   \A j \in DOMAIN m_edges :
                       m_edges[j].id = last.ret[2][i] =>
                           m_edges[j].source # dropped /\ m_edges[j].target # dropped

\* C36: copy() returns a graph with the vertices, edges and properties of
\* the original and an equal edge_spline_count, so that the counter of the
\* copy is the sum of the sizes of its curves whenever that of the original
\* is
C36_CopySameState ==
    Called("copy") =>
        /\ last.ret.m_vertices = Canon(pre).m_vertices
        /\ last.ret.m_edges = Canon(pre).m_edges
        /\ last.ret.edge_spline_count_ = pre.edge_spline_count_
        /\ pre.edge_spline_count_ = SampleTotal(pre) =>
               last.ret.edge_spline_count_ = SampleTotal(last.ret)

\* the graph g as the object that the operations are called on
AsThis(g) ==
    [m_vertices |-> g.m_vertices, m_edges |-> g.m_edges,
     edge_spline_count_ |-> g.edge_spline_count_,
     used_v |-> Ids(g.m_vertices), used_e |-> Ids(g.m_edges)]

RECURSIVE Degree2WhenVisited(_, _)
\* the vertices of the list that have two edges when the loop comes to them
Degree2WhenVisited(g, vertices_to_check) ==
    IF vertices_to_check = <<>> THEN <<>>
    ELSE LET vertex_to_check == Head(vertices_to_check)
         IN  IF vertex_to_check \in Ids(g.m_vertices) /\ degree(g, vertex_to_check) = 2
             THEN <<vertex_to_check>>
                      \o Degree2WhenVisited(
                             remove_degree_2_vertex_and_merge_edges(g, vertex_to_check).g,
                             Tail(vertices_to_check))
             ELSE Degree2WhenVisited(g, Tail(vertices_to_check))

\* C37: when remove_vertices_of_degree_2_and_merge_edges(list) returns,
\* every added edge returned is an edge of the graph, every removed edge
\* returned was an edge before the call and is none after it, and the
\* removed vertices returned are the vertices of the list that had two
\* edges when the loop came to them
C37_NetDiff ==
    Called("remove_vertices_of_degree_2_and_merge_edges") /\ last.err = "none" =>
        /\ Range(last.ret[1]) \subseteq Ids(m_edges)
        /\ Range(last.ret[2][2]) \subseteq Ids(pre.m_edges) \ Ids(m_edges)
        /\ last.ret[2][1] = Degree2WhenVisited(AsThis(pre), last.args[1])

\* two vertices were merged away, the second with the edge that the first
\* merge had added
C37_Witness ==
    /\ Called("remove_vertices_of_degree_2_and_merge_edges")
    /\ last.err = "none"
    /\ Len(last.ret[2][1]) = 2
    /\ Len(last.ret[1]) = 1
    /\ Len(m_edges) < Len(pre.m_edges) - 1

\* C38: after find_cycles has returned, both ends of every edge that is
\* marked as part of a cycle are marked as part of a cycle
C38_CycleEdgeEndsMarked ==
    Called("find_cycles") /\ last.err = "none" =>
        \A j \in DOMAIN m_edges :
            m_edges[j].is_part_of_cycle =>
                /\ get_vertex(Graph, m_edges[j].source).is_part_of_cycle
                /\ get_vertex(Graph, m_edges[j].target).is_part_of_cycle

\* find_cycles has marked an edge between two vertices, next to an edge
\* that it left unmarked
C38_Witness ==
    /\ Called("find_cycles")
    /\ last.err = "none"
    /\ \E j \in DOMAIN m_edges :
           m_edges[j].is_part_of_cycle /\ m_edges[j].source # m_edges[j].target
    /\ \E j \in DOMAIN m_edges : ~m_edges[j].is_part_of_cycle

\* C39: shortest_path, count_connected_components and find_cycles come to
\* an end on every graph: no while loop over a queue makes more than
\* 2 * vertex_count iterations, and every walk from parent to parent ends
\* at a vertex without parent after vertex_count steps at most
C39_AlgorithmsTerminate ==
    CalledAlgorithm =>
        /\ last.steps.loop <= 2 * vertex_count(Graph)
        /\ last.steps.walk <= vertex_count(Graph)
        /\ last.steps.rooted

\* a loop over a queue was stopped by its limit, on a graph with a self-loop
C39_Witness ==
    /\ CalledAlgorithm
    /\ vertex_count(Graph) > 1
    /\ last.steps.loop = 2 * vertex_count(Graph)
    /\ \E j \in DOMAIN m_edges : m_edges[j].source = m_edges[j].target

====
